---- MODULE Spec2Model ----
(***************************************************************************)
(* Chicken-farm ERP: the handlers of server/src/handlers over the eight    *)
(* PostgreSQL tables of server/src/db/schema.ts.                            *)
(*                                                                         *)
(* Units.  A numeric(p,2) column holds whole cents (price_per_kg,          *)
(* cost_per_kg, cost, total_price, amount), hundredths of a percent        *)
(* (percentage) or hundredths of a kilogram (quantity_kg); price_per_egg   *)
(* is numeric(6,4) and holds 1/10000 of a currency unit.  A JavaScript     *)
(* number that is written to such a column is rounded by PostgreSQL to the *)
(* column's scale; products computed in double arithmetic can land on      *)
(* either side of an exact half, so a tie rounds either way.               *)
(*                                                                         *)
(* Dates.  A Date argument is an instant, counted here in half days since  *)
(* an epoch (even = midnight UTC, odd = noon UTC); a date column holds the *)
(* day number that toISOString().split('T')[0] keeps of it.                *)
(*                                                                         *)
(* The wall-clock columns created_at / updated_at are not part of the      *)
(* state.                                                                  *)
(***************************************************************************)
EXTENDS Integers, FiniteSets, Sequences, TLC

\* Bound: the number of rows ever inserted, over all tables together, in the
\* behaviours of SpecFeed (each insert draws one value from a serial sequence).
MaxRows == 5
\* Bound: the number of rows ever inserted into any one table.
MaxPerTable == 3
\* Bound: the number of egg sales ever inserted in the behaviours of SpecSales.
MaxSalesRows == 2
\* Bound: the number of rows ever inserted, over all tables together, in the
\* behaviours of SpecCrud, which exercises all eight entities at once.
MaxCrudRows == 4
\* Bound: the number of rows ever inserted, over all tables together, in the
\* behaviours of SpecQuery.
MaxQueryRows == 3
\* Bound: the number of rows ever inserted, over all tables together, in the
\* behaviours of SpecReport, the four rows it starts with included.
MaxReportRows == 7
\* Bound: the same in the behaviours of SpecConsumption, which starts with the
\* same four rows.
MaxConsumptionRows == 6
\* Bound: the last calendar day that inputs mention (days are 0..MaxDay).
MaxDay == 2

\* An optional input field that the caller left out.
Undefined == -1
UndefinedStr == "undefined"

VARIABLES
    rawFeedMaterials,   \* id -> [name, price_per_kg]
    finishedFeeds,      \* id -> [name, cost_per_kg]
    feedCompositions,   \* id -> [finished_feed_id, raw_material_id, percentage]
    chickenFlocks,      \* id -> [strain, entry_date, initial_count, age_upon_entry_days, current_count]
    feedConsumptions,   \* id -> [flock_id, finished_feed_id, consumption_date, quantity_kg, cost]
    eggProductions,     \* id -> [flock_id, production_date, quality, quantity]
    eggSales,           \* id -> [sale_date, quality, quantity, price_per_egg, total_price]
    otherExpenses,      \* id -> [expense_date, expense_type, description, amount]
    seq,                \* table name -> last value drawn from the table's serial sequence
    last,               \* the call that completed last: handler, outcome, id, returned value
    calls               \* client -> the call it has in progress between two statements

tables == <<rawFeedMaterials, finishedFeeds, feedCompositions, chickenFlocks,
            feedConsumptions, eggProductions, eggSales, otherExpenses>>
vars == <<rawFeedMaterials, finishedFeeds, feedCompositions, chickenFlocks,
          feedConsumptions, eggProductions, eggSales, otherExpenses, seq, last, calls>>

TableNames == {"raw_feed_materials", "finished_feeds", "feed_compositions", "chicken_flocks",
               "feed_consumptions", "egg_productions", "egg_sales", "other_expenses"}

\* The ids a call is tried with: every id the table's sequence has issued (rows
\* that exist or were deleted) and the next one, which stands for every id that
\* was never issued.
Ids(t) == 1..(seq[t] + 1)
NoRows == [i \in {} |-> 0]
Void == [void |-> TRUE]

----------------------------------------------------------------------------
(* Arithmetic at the persistence boundary *)

RECURSIVE SumOver(_, _)
SumOver(f, S) ==
    IF S = {} THEN 0
    ELSE LET x == CHOOSE y \in S : TRUE IN f[x] + SumOver(f, S \ {x})

\* PostgreSQL numeric rounding of an exact value n/unit to an integer number of
\* units: half away from zero (all values here are >= 0).
RoundHalfUp(n, unit) == (2 * n + unit) \div (2 * unit)

\* The integers a double-computed value n/unit can be stored as: the nearest one,
\* and at an exact tie either neighbour (the double may be a hair under or over).
FloatRounded(n, unit) ==
    IF (2 * n) % (2 * unit) = unit THEN {n \div unit, n \div unit + 1}
    ELSE {RoundHalfUp(n, unit)}

\* date.toISOString().split('T')[0]: the UTC calendar day of an instant.
formatDateForDB(instant) == instant \div 2

----------------------------------------------------------------------------
(* Outcome of a call *)

\* The two clients whose calls can overlap.
Clients == {1, 2}
\* No call in progress.
Idle == [pc |-> "idle", op |-> "none", id |-> 0, val |-> Void, feed |-> 0, totalCost |-> 0]

\* A handler resolves with value val; id is the row it wrote (0 when none).  The
\* handler ran from its first statement to its last in this step.
Return(op, id, val) ==
    /\ last' = [op |-> op, err |-> "none", id |-> id, val |-> val]
    /\ UNCHANGED calls

\* A handler rejects with an error of kind err (the message without the id it
\* may quote): nothing was written.
Throw(op, id, err) ==
    /\ last' = [op |-> op, err |-> err, id |-> id, val |-> Void]
    /\ UNCHANGED <<tables, seq, calls>>

\* The next value of a serial sequence.
NextId(t) == seq[t] + 1

RowsInserted ==
    seq["raw_feed_materials"] + seq["finished_feeds"] + seq["feed_compositions"]
    + seq["chicken_flocks"] + seq["feed_consumptions"] + seq["egg_productions"]
    + seq["egg_sales"] + seq["other_expenses"]
CanInsert(t) == seq[t] < MaxPerTable

\* A row of `child` references row `id` through foreign key column `col`.
Referenced(child, col, id) == \E c \in DOMAIN child : child[c][col] = id

Init ==
    /\ rawFeedMaterials = NoRows
    /\ finishedFeeds = NoRows
    /\ feedCompositions = NoRows
    /\ chickenFlocks = NoRows
    /\ feedConsumptions = NoRows
    /\ eggProductions = NoRows
    /\ eggSales = NoRows
    /\ otherExpenses = NoRows
    /\ seq = [t \in TableNames |-> 0]
    /\ last = [op |-> "start", err |-> "none", id |-> 0, val |-> Void]
    /\ calls = [c \in Clients |-> Idle]

----------------------------------------------------------------------------
(* Raw feed materials *)

createRawFeedMaterial(input) ==
    LET id == NextId("raw_feed_materials")
        row == [name |-> input.name, price_per_kg |-> input.price_per_kg]
    IN  /\ CanInsert("raw_feed_materials")
        /\ rawFeedMaterials' = rawFeedMaterials @@ (id :> row)
        /\ seq' = [seq EXCEPT !["raw_feed_materials"] = id]
        /\ Return("createRawFeedMaterial", id, row)
        /\ UNCHANGED <<finishedFeeds, feedCompositions, chickenFlocks, feedConsumptions,
                       eggProductions, eggSales, otherExpenses>>

\* updateValues always carries updated_at, so the UPDATE is never empty.
updateRawFeedMaterial(input) ==
    IF input.id \notin DOMAIN rawFeedMaterials
    THEN Throw("updateRawFeedMaterial", input.id, "Raw feed material not found")
    ELSE LET old == rawFeedMaterials[input.id]
             row == [name |-> IF input.name # UndefinedStr THEN input.name ELSE old.name,
                     price_per_kg |-> IF input.price_per_kg # Undefined
                                      THEN input.price_per_kg ELSE old.price_per_kg]
         IN  /\ rawFeedMaterials' = [rawFeedMaterials EXCEPT ![input.id] = row]
             /\ Return("updateRawFeedMaterial", input.id, row)
             /\ UNCHANGED <<finishedFeeds, feedCompositions, chickenFlocks, feedConsumptions,
                            eggProductions, eggSales, otherExpenses, seq>>

\* feed_compositions.raw_material_id references raw_feed_materials.id with no
\* ON DELETE action: deleting a referenced material is refused by the database.
deleteRawFeedMaterial(id) ==
    IF id \notin DOMAIN rawFeedMaterials
    THEN Throw("deleteRawFeedMaterial", id, "Raw feed material not found")
    ELSE IF Referenced(feedCompositions, "raw_material_id", id)
    THEN Throw("deleteRawFeedMaterial", id, "foreign key violation")
    ELSE /\ rawFeedMaterials' = [i \in DOMAIN rawFeedMaterials \ {id} |-> rawFeedMaterials[i]]
         /\ Return("deleteRawFeedMaterial", id, Void)
         /\ UNCHANGED <<finishedFeeds, feedCompositions, chickenFlocks, feedConsumptions,
                        eggProductions, eggSales, otherExpenses, seq>>

----------------------------------------------------------------------------
(* Finished feeds *)

createFinishedFeed(input) ==
    LET id == NextId("finished_feeds")
        row == [name |-> input.name, cost_per_kg |-> 0]
    IN  /\ CanInsert("finished_feeds")
        /\ finishedFeeds' = finishedFeeds @@ (id :> row)
        /\ seq' = [seq EXCEPT !["finished_feeds"] = id]
        /\ Return("createFinishedFeed", id, row)
        /\ UNCHANGED <<rawFeedMaterials, feedCompositions, chickenFlocks, feedConsumptions,
                       eggProductions, eggSales, otherExpenses>>

\* A variant of updateFinishedFeed that writes cost_per_kg back as 0.
updateFinishedFeed_resetsCost(input) ==
    IF input.id \notin DOMAIN finishedFeeds
    THEN Throw("updateFinishedFeed", input.id, "Finished feed not found")
    ELSE LET old == finishedFeeds[input.id]
             row == [name |-> IF input.name # UndefinedStr THEN input.name ELSE old.name,
                     cost_per_kg |-> 0]
         IN  /\ finishedFeeds' = [finishedFeeds EXCEPT ![input.id] = row]
             /\ Return("updateFinishedFeed", input.id, row)
             /\ UNCHANGED <<rawFeedMaterials, feedCompositions, chickenFlocks, feedConsumptions,
                            eggProductions, eggSales, otherExpenses, seq>>

updateFinishedFeed(input) ==
    IF input.id \notin DOMAIN finishedFeeds
    THEN Throw("updateFinishedFeed", input.id, "Finished feed not found")
    ELSE LET old == finishedFeeds[input.id]
             row == [old EXCEPT !.name = IF input.name # UndefinedStr THEN input.name ELSE @]
         IN  /\ finishedFeeds' = [finishedFeeds EXCEPT ![input.id] = row]
             /\ Return("updateFinishedFeed", input.id, row)
             /\ UNCHANGED <<rawFeedMaterials, feedCompositions, chickenFlocks, feedConsumptions,
                            eggProductions, eggSales, otherExpenses, seq>>

\* Referenced by feed_compositions.finished_feed_id and
\* feed_consumptions.finished_feed_id, both without ON DELETE action.
deleteFinishedFeed(id) ==
    IF id \notin DOMAIN finishedFeeds
    THEN Throw("deleteFinishedFeed", id, "Finished feed not found")
    ELSE IF \/ Referenced(feedCompositions, "finished_feed_id", id)
            \/ Referenced(feedConsumptions, "finished_feed_id", id)
    THEN Throw("deleteFinishedFeed", id, "foreign key violation")
    ELSE /\ finishedFeeds' = [i \in DOMAIN finishedFeeds \ {id} |-> finishedFeeds[i]]
         /\ Return("deleteFinishedFeed", id, Void)
         /\ UNCHANGED <<rawFeedMaterials, feedCompositions, chickenFlocks, feedConsumptions,
                        eggProductions, eggSales, otherExpenses, seq>>

\* SELECT ... FROM feed_compositions INNER JOIN raw_feed_materials
\* WHERE finished_feed_id = finishedFeedId: the ids of the joined rows.
JoinedCompositions(finishedFeedId, comps, mats) ==
    {c \in DOMAIN comps : /\ comps[c].finished_feed_id = finishedFeedId
                          /\ comps[c].raw_material_id \in DOMAIN mats}

\* Sum of percentage x price_per_kg over the joined rows, in 1/10000 of a cent
\* (hundredths of a percent times cents): cost_per_kg in cents is this / 10000.
WeightedCost(finishedFeedId, comps, mats) ==
    LET term == [c \in DOMAIN comps |->
                    IF comps[c].raw_material_id \in DOMAIN mats
                    THEN comps[c].percentage * mats[comps[c].raw_material_id].price_per_kg
                    ELSE 0]
    IN  SumOver(term, JoinedCompositions(finishedFeedId, comps, mats))

\* One cent, in the unit of WeightedCost.
CentInWeightedCost == 10000

\* calculateFeedCost: the sum is exact (SQL numeric), it is returned unrounded and
\* stored rounded to cents; an id of no feed updates no row and raises nothing.
calculateFeedCost(finishedFeedId) ==
    LET totalCost == WeightedCost(finishedFeedId, feedCompositions, rawFeedMaterials)
    IN  /\ finishedFeeds' =
              [f \in DOMAIN finishedFeeds |->
                  IF f = finishedFeedId
                  THEN [finishedFeeds[f] EXCEPT
                            !.cost_per_kg = RoundHalfUp(totalCost, CentInWeightedCost)]
                  ELSE finishedFeeds[f]]
        /\ Return("calculateFeedCost", finishedFeedId, [totalCost |-> totalCost])
        /\ UNCHANGED <<rawFeedMaterials, feedCompositions, chickenFlocks, feedConsumptions,
                       eggProductions, eggSales, otherExpenses, seq>>

----------------------------------------------------------------------------
(* Feed compositions *)

\* Mutant of updateFinishedFeedCost: returns early when the join finds no
\* composition, leaving the previous cost_per_kg in place.
updateFinishedFeedCost_skipsEmpty(finishedFeedId, comps, feeds) ==
    IF JoinedCompositions(finishedFeedId, comps, rawFeedMaterials) = {}
    THEN {feeds}
    ELSE {[f \in DOMAIN feeds |->
             IF f = finishedFeedId THEN [feeds[f] EXCEPT !.cost_per_kg = c] ELSE feeds[f]] :
           c \in FloatRounded(WeightedCost(finishedFeedId, comps, rawFeedMaterials),
                              CentInWeightedCost)}

\* The percentages of a feed's joined compositions, added up.
TotalPercentage(finishedFeedId, comps, mats) ==
    SumOver([c \in DOMAIN comps |-> comps[c].percentage],
            JoinedCompositions(finishedFeedId, comps, mats))

\* One percent, in the unit of the percentage column.
PercentInColumn == 100

\* A variant of updateFinishedFeedCost that scales the weighted cost down when
\* the percentages add up to more than 100.
updateFinishedFeedCost_normalized(finishedFeedId, comps, feeds) ==
    LET total == TotalPercentage(finishedFeedId, comps, rawFeedMaterials)
        unit == IF total > 100 * PercentInColumn THEN total ELSE CentInWeightedCost
    IN  {[f \in DOMAIN feeds |->
             IF f = finishedFeedId THEN [feeds[f] EXCEPT !.cost_per_kg = c] ELSE feeds[f]] :
           c \in FloatRounded(WeightedCost(finishedFeedId, comps, rawFeedMaterials), unit)}

\* A variant of updateFinishedFeedCost whose UPDATE has no WHERE clause on the
\* feed: every finished feed is given its weighted cost.
updateFinishedFeedCost_everyFeed(finishedFeedId, comps, feeds) ==
    {[f \in DOMAIN feeds |->
         [feeds[f] EXCEPT !.cost_per_kg =
             IF f = finishedFeedId
             THEN c
             ELSE RoundHalfUp(WeightedCost(f, comps, rawFeedMaterials), CentInWeightedCost)]] :
       c \in FloatRounded(WeightedCost(finishedFeedId, comps, rawFeedMaterials),
                          CentInWeightedCost)}

\* The finished-feed tables that updateFinishedFeedCost can leave behind: the
\* weighted cost is summed in doubles, written as text and rounded to cents by
\* the cost_per_kg column.
updateFinishedFeedCost(finishedFeedId, comps, feeds) ==
    {[f \in DOMAIN feeds |->
         IF f = finishedFeedId THEN [feeds[f] EXCEPT !.cost_per_kg = c] ELSE feeds[f]] :
       c \in FloatRounded(WeightedCost(finishedFeedId, comps, rawFeedMaterials),
                          CentInWeightedCost)}

\* A variant of createFeedComposition without the check for an existing
\* composition of the same finished feed and raw material.
createFeedComposition_noDuplicateCheck(input) ==
    IF input.finished_feed_id \notin DOMAIN finishedFeeds
    THEN Throw("createFeedComposition", input.finished_feed_id, "Finished feed not found")
    ELSE IF input.raw_material_id \notin DOMAIN rawFeedMaterials
    THEN Throw("createFeedComposition", input.raw_material_id, "Raw material not found")
    ELSE LET id == NextId("feed_compositions")
             row == [finished_feed_id |-> input.finished_feed_id,
                     raw_material_id |-> input.raw_material_id,
                     percentage |-> input.percentage]
         IN  /\ CanInsert("feed_compositions")
             /\ feedCompositions' = feedCompositions @@ (id :> row)
             /\ seq' = [seq EXCEPT !["feed_compositions"] = id]
             /\ finishedFeeds' \in updateFinishedFeedCost(input.finished_feed_id,
                                                         feedCompositions', finishedFeeds)
             /\ Return("createFeedComposition", id, row)
             /\ UNCHANGED <<rawFeedMaterials, chickenFlocks, feedConsumptions,
                            eggProductions, eggSales, otherExpenses>>

createFeedComposition(input) ==
    IF input.finished_feed_id \notin DOMAIN finishedFeeds
    THEN Throw("createFeedComposition", input.finished_feed_id, "Finished feed not found")
    ELSE IF input.raw_material_id \notin DOMAIN rawFeedMaterials
    THEN Throw("createFeedComposition", input.raw_material_id, "Raw material not found")
    ELSE IF \E c \in DOMAIN feedCompositions :
                /\ feedCompositions[c].finished_feed_id = input.finished_feed_id
                /\ feedCompositions[c].raw_material_id = input.raw_material_id
    THEN Throw("createFeedComposition", input.finished_feed_id, "Composition already exists")
    ELSE LET id == NextId("feed_compositions")
             row == [finished_feed_id |-> input.finished_feed_id,
                     raw_material_id |-> input.raw_material_id,
                     percentage |-> input.percentage]
         IN  /\ CanInsert("feed_compositions")
             /\ feedCompositions' = feedCompositions @@ (id :> row)
             /\ seq' = [seq EXCEPT !["feed_compositions"] = id]
             /\ finishedFeeds' \in updateFinishedFeedCost(input.finished_feed_id,
                                                         feedCompositions', finishedFeeds)
             /\ Return("createFeedComposition", id, row)
             /\ UNCHANGED <<rawFeedMaterials, chickenFlocks, feedConsumptions,
                            eggProductions, eggSales, otherExpenses>>

\* .set({ percentage: undefined }) leaves the query builder nothing to set and it
\* throws before any statement is sent.
updateFeedComposition(input) ==
    IF input.id \notin DOMAIN feedCompositions
    THEN Throw("updateFeedComposition", input.id, "Feed composition not found")
    ELSE IF input.percentage = Undefined
    THEN Throw("updateFeedComposition", input.id, "No values to set")
    ELSE LET row == [feedCompositions[input.id] EXCEPT !.percentage = input.percentage]
         IN  /\ feedCompositions' = [feedCompositions EXCEPT ![input.id] = row]
             /\ finishedFeeds' \in updateFinishedFeedCost(row.finished_feed_id,
                                                         feedCompositions', finishedFeeds)
             /\ Return("updateFeedComposition", input.id, row)
             /\ UNCHANGED <<rawFeedMaterials, chickenFlocks, feedConsumptions,
                            eggProductions, eggSales, otherExpenses, seq>>

\* A variant of deleteFeedComposition that removes the row and leaves the
\* finished feed's cost_per_kg as it was.
deleteFeedComposition_noRecompute(id) ==
    IF id \notin DOMAIN feedCompositions
    THEN Throw("deleteFeedComposition", id, "Feed composition not found")
    ELSE /\ feedCompositions' = [i \in DOMAIN feedCompositions \ {id} |-> feedCompositions[i]]
         /\ Return("deleteFeedComposition", id, Void)
         /\ UNCHANGED <<rawFeedMaterials, finishedFeeds, chickenFlocks, feedConsumptions,
                        eggProductions, eggSales, otherExpenses, seq>>

deleteFeedComposition(id) ==
    IF id \notin DOMAIN feedCompositions
    THEN Throw("deleteFeedComposition", id, "Feed composition not found")
    ELSE LET composition == feedCompositions[id]
         IN  /\ feedCompositions' = [i \in DOMAIN feedCompositions \ {id} |-> feedCompositions[i]]
             /\ finishedFeeds' \in updateFinishedFeedCost(composition.finished_feed_id,
                                                         feedCompositions', finishedFeeds)
             /\ Return("deleteFeedComposition", id, Void)
             /\ UNCHANGED <<rawFeedMaterials, chickenFlocks, feedConsumptions,
                            eggProductions, eggSales, otherExpenses, seq>>

----------------------------------------------------------------------------
(* Chicken flocks *)

createChickenFlock(input) ==
    LET id == NextId("chicken_flocks")
        row == [strain |-> input.strain,
                entry_date |-> formatDateForDB(input.entry_date),
                initial_count |-> input.initial_count,
                age_upon_entry_days |-> input.age_upon_entry_days,
                current_count |-> input.initial_count]
    IN  /\ CanInsert("chicken_flocks")
        /\ chickenFlocks' = chickenFlocks @@ (id :> row)
        /\ seq' = [seq EXCEPT !["chicken_flocks"] = id]
        /\ Return("createChickenFlock", id, row)
        /\ UNCHANGED <<rawFeedMaterials, finishedFeeds, feedCompositions, feedConsumptions,
                       eggProductions, eggSales, otherExpenses>>

\* A variant of updateChickenFlock in which a new current_count is written to
\* initial_count as well.
updateChickenFlock_initialFollows(input) ==
    IF input.id \notin DOMAIN chickenFlocks
    THEN Throw("updateChickenFlock", input.id, "Chicken flock not found")
    ELSE LET old == chickenFlocks[input.id]
             row == [strain |-> IF input.strain # UndefinedStr THEN input.strain ELSE old.strain,
                     entry_date |-> IF input.entry_date # Undefined
                                    THEN formatDateForDB(input.entry_date) ELSE old.entry_date,
                     initial_count |-> IF input.current_count # Undefined
                                       THEN input.current_count
                                       ELSE IF input.initial_count # Undefined
                                       THEN input.initial_count ELSE old.initial_count,
                     age_upon_entry_days |-> IF input.age_upon_entry_days # Undefined
                                             THEN input.age_upon_entry_days
                                             ELSE old.age_upon_entry_days,
                     current_count |-> IF input.current_count # Undefined
                                       THEN input.current_count ELSE old.current_count]
         IN  /\ chickenFlocks' = [chickenFlocks EXCEPT ![input.id] = row]
             /\ Return("updateChickenFlock", input.id, row)
             /\ UNCHANGED <<rawFeedMaterials, finishedFeeds, feedCompositions, feedConsumptions,
                            eggProductions, eggSales, otherExpenses, seq>>

\* updateData always carries updated_at, so the UPDATE is never empty.
updateChickenFlock(input) ==
    IF input.id \notin DOMAIN chickenFlocks
    THEN Throw("updateChickenFlock", input.id, "Chicken flock not found")
    ELSE LET old == chickenFlocks[input.id]
             row == [strain |-> IF input.strain # UndefinedStr THEN input.strain ELSE old.strain,
                     entry_date |-> IF input.entry_date # Undefined
                                    THEN formatDateForDB(input.entry_date) ELSE old.entry_date,
                     initial_count |-> IF input.initial_count # Undefined
                                       THEN input.initial_count ELSE old.initial_count,
                     age_upon_entry_days |-> IF input.age_upon_entry_days # Undefined
                                             THEN input.age_upon_entry_days
                                             ELSE old.age_upon_entry_days,
                     current_count |-> IF input.current_count # Undefined
                                       THEN input.current_count ELSE old.current_count]
         IN  /\ chickenFlocks' = [chickenFlocks EXCEPT ![input.id] = row]
             /\ Return("updateChickenFlock", input.id, row)
             /\ UNCHANGED <<rawFeedMaterials, finishedFeeds, feedCompositions, feedConsumptions,
                            eggProductions, eggSales, otherExpenses, seq>>

\* Referenced by feed_consumptions.flock_id and egg_productions.flock_id, both
\* without ON DELETE action.
\* A variant of deleteChickenFlock on a database without the foreign keys to
\* chicken_flocks.
deleteChickenFlock_unconstrained(id) ==
    IF id \notin DOMAIN chickenFlocks
    THEN Throw("deleteChickenFlock", id, "Chicken flock not found")
    ELSE /\ chickenFlocks' = [i \in DOMAIN chickenFlocks \ {id} |-> chickenFlocks[i]]
         /\ Return("deleteChickenFlock", id, Void)
         /\ UNCHANGED <<rawFeedMaterials, finishedFeeds, feedCompositions, feedConsumptions,
                        eggProductions, eggSales, otherExpenses, seq>>

deleteChickenFlock(id) ==
    IF id \notin DOMAIN chickenFlocks
    THEN Throw("deleteChickenFlock", id, "Chicken flock not found")
    ELSE IF \/ Referenced(feedConsumptions, "flock_id", id)
            \/ Referenced(eggProductions, "flock_id", id)
    THEN Throw("deleteChickenFlock", id, "foreign key violation")
    ELSE /\ chickenFlocks' = [i \in DOMAIN chickenFlocks \ {id} |-> chickenFlocks[i]]
         /\ Return("deleteChickenFlock", id, Void)
         /\ UNCHANGED <<rawFeedMaterials, finishedFeeds, feedCompositions, feedConsumptions,
                        eggProductions, eggSales, otherExpenses, seq>>

----------------------------------------------------------------------------
(* Feed consumptions.  An input quantity_kg is counted in grams (1/1000 kg); the *)
(* quantity_kg column holds hundredths of a kilogram.                            *)

\* One hundredth of a kilogram, in grams.
GramsPerCentiKg == 10
\* One cent of cost, in the unit of grams x cents-per-kg.
CentInGramCost == 1000
\* One cent of cost, in the unit of hundredths-of-kg x cents-per-kg.
CentInCentiKgCost == 100

\* quantity x cost_per_kg in doubles, stored in the numeric(10,2) cost column:
\* the cents it can be stored as.  `unit` is one cent in the unit of the product.
consumptionCost(quantity, cost_per_kg, unit) == FloatRounded(quantity * cost_per_kg, unit)

createFeedConsumption(input) ==
    IF input.flock_id \notin DOMAIN chickenFlocks
    THEN Throw("createFeedConsumption", input.flock_id, "Flock not found")
    ELSE IF input.finished_feed_id \notin DOMAIN finishedFeeds
    THEN Throw("createFeedConsumption", input.finished_feed_id, "Finished feed not found")
    ELSE /\ CanInsert("feed_consumptions")
         /\ \E cost \in consumptionCost(input.quantity_kg,
                                       finishedFeeds[input.finished_feed_id].cost_per_kg,
                                       CentInGramCost) :
              LET id == NextId("feed_consumptions")
                  row == [flock_id |-> input.flock_id,
                          finished_feed_id |-> input.finished_feed_id,
                          consumption_date |-> formatDateForDB(input.consumption_date),
                          quantity_kg |-> RoundHalfUp(input.quantity_kg, GramsPerCentiKg),
                          cost |-> cost]
              IN  /\ feedConsumptions' = feedConsumptions @@ (id :> row)
                  /\ seq' = [seq EXCEPT !["feed_consumptions"] = id]
                  /\ Return("createFeedConsumption", id, row)
         /\ UNCHANGED <<rawFeedMaterials, finishedFeeds, feedCompositions, chickenFlocks,
                        eggProductions, eggSales, otherExpenses>>

\* A variant of updatedConsumptionCost that always prices the quantity with the
\* feed the row referenced before the update.
updatedConsumptionCost_storedFeed(input, existing) ==
    IF input.quantity_kg = Undefined /\ input.finished_feed_id = Undefined
    THEN {existing.cost}
    ELSE IF input.quantity_kg # Undefined
         THEN consumptionCost(input.quantity_kg,
                              finishedFeeds[existing.finished_feed_id].cost_per_kg,
                              CentInGramCost)
         ELSE consumptionCost(existing.quantity_kg,
                              finishedFeeds[existing.finished_feed_id].cost_per_kg,
                              CentInCentiKgCost)

\* A variant of updatedConsumptionCost that prices the row again on every
\* update, whichever fields the input gives.
updatedConsumptionCost_recomputed(input, existing) ==
    LET feedId == IF input.finished_feed_id # Undefined
                  THEN input.finished_feed_id ELSE existing.finished_feed_id
    IN  IF input.quantity_kg # Undefined
        THEN consumptionCost(input.quantity_kg, finishedFeeds[feedId].cost_per_kg,
                             CentInGramCost)
        ELSE consumptionCost(existing.quantity_kg, finishedFeeds[feedId].cost_per_kg,
                             CentInCentiKgCost)

\* The costs updateFeedConsumption can write: none changes when neither
\* quantity_kg nor finished_feed_id is given; otherwise quantity (the input's, in
\* grams, else the stored one) x cost_per_kg of the feed (the input's, else the
\* stored one) as read at this moment.
updatedConsumptionCost(input, existing) ==
    IF input.quantity_kg = Undefined /\ input.finished_feed_id = Undefined
    THEN {existing.cost}
    ELSE LET feedId == IF input.finished_feed_id # Undefined
                       THEN input.finished_feed_id ELSE existing.finished_feed_id
         IN  IF input.quantity_kg # Undefined
             THEN consumptionCost(input.quantity_kg, finishedFeeds[feedId].cost_per_kg,
                                  CentInGramCost)
             ELSE consumptionCost(existing.quantity_kg, finishedFeeds[feedId].cost_per_kg,
                                  CentInCentiKgCost)

updateFeedConsumption(input) ==
    IF input.id \notin DOMAIN feedConsumptions
    THEN Throw("updateFeedConsumption", input.id, "Feed consumption not found")
    ELSE IF input.flock_id # Undefined /\ input.flock_id \notin DOMAIN chickenFlocks
    THEN Throw("updateFeedConsumption", input.flock_id, "Flock not found")
    ELSE IF input.finished_feed_id # Undefined /\ input.finished_feed_id \notin DOMAIN finishedFeeds
    THEN Throw("updateFeedConsumption", input.finished_feed_id, "Finished feed not found")
    ELSE IF /\ input.flock_id = Undefined /\ input.finished_feed_id = Undefined
            /\ input.consumption_date = Undefined /\ input.quantity_kg = Undefined
    THEN Throw("updateFeedConsumption", input.id, "No values to set")
    ELSE LET existing == feedConsumptions[input.id]
         IN  /\ \E cost \in updatedConsumptionCost(input, existing) :
                  LET row == [flock_id |-> IF input.flock_id # Undefined
                                           THEN input.flock_id ELSE existing.flock_id,
                              finished_feed_id |-> IF input.finished_feed_id # Undefined
                                                   THEN input.finished_feed_id
                                                   ELSE existing.finished_feed_id,
                              consumption_date |-> IF input.consumption_date # Undefined
                                                   THEN formatDateForDB(input.consumption_date)
                                                   ELSE existing.consumption_date,
                              quantity_kg |-> IF input.quantity_kg # Undefined
                                              THEN RoundHalfUp(input.quantity_kg, GramsPerCentiKg)
                                              ELSE existing.quantity_kg,
                              cost |-> cost]
                  IN  /\ feedConsumptions' = [feedConsumptions EXCEPT ![input.id] = row]
                      /\ Return("updateFeedConsumption", input.id, row)
             /\ UNCHANGED <<rawFeedMaterials, finishedFeeds, feedCompositions, chickenFlocks,
                            eggProductions, eggSales, otherExpenses, seq>>

deleteFeedConsumption(id) ==
    IF id \notin DOMAIN feedConsumptions
    THEN Throw("deleteFeedConsumption", id, "Feed consumption not found")
    ELSE /\ feedConsumptions' = [i \in DOMAIN feedConsumptions \ {id} |-> feedConsumptions[i]]
         /\ Return("deleteFeedConsumption", id, Void)
         /\ UNCHANGED <<rawFeedMaterials, finishedFeeds, feedCompositions, chickenFlocks,
                        eggProductions, eggSales, otherExpenses, seq>>

----------------------------------------------------------------------------
(* Egg productions *)

\* A variant of createEggProduction that inserts without looking the flock up.
createEggProduction_unchecked(input) ==
    LET id == NextId("egg_productions")
        row == [flock_id |-> input.flock_id,
                production_date |-> formatDateForDB(input.production_date),
                quality |-> input.quality,
                quantity |-> input.quantity]
    IN  /\ CanInsert("egg_productions")
        /\ eggProductions' = eggProductions @@ (id :> row)
        /\ seq' = [seq EXCEPT !["egg_productions"] = id]
        /\ Return("createEggProduction", id, row)
        /\ UNCHANGED <<rawFeedMaterials, finishedFeeds, feedCompositions, chickenFlocks,
                       feedConsumptions, eggSales, otherExpenses>>

createEggProduction(input) ==
    IF input.flock_id \notin DOMAIN chickenFlocks
    THEN Throw("createEggProduction", input.flock_id, "Flock does not exist")
    ELSE LET id == NextId("egg_productions")
             row == [flock_id |-> input.flock_id,
                     production_date |-> formatDateForDB(input.production_date),
                     quality |-> input.quality,
                     quantity |-> input.quantity]
         IN  /\ CanInsert("egg_productions")
             /\ eggProductions' = eggProductions @@ (id :> row)
             /\ seq' = [seq EXCEPT !["egg_productions"] = id]
             /\ Return("createEggProduction", id, row)
             /\ UNCHANGED <<rawFeedMaterials, finishedFeeds, feedCompositions, chickenFlocks,
                            feedConsumptions, eggSales, otherExpenses>>

\* A variant of updateEggProduction that writes quality 'A' when the input
\* has no quality.
updateEggProduction_defaultQuality(input) ==
    IF input.id \notin DOMAIN eggProductions
    THEN Throw("updateEggProduction", input.id, "Egg production record does not exist")
    ELSE IF input.flock_id # Undefined /\ input.flock_id \notin DOMAIN chickenFlocks
    THEN Throw("updateEggProduction", input.flock_id, "Flock does not exist")
    ELSE IF /\ input.flock_id = Undefined /\ input.production_date = Undefined
            /\ input.quality = UndefinedStr /\ input.quantity = Undefined
    THEN Throw("updateEggProduction", input.id, "No values to set")
    ELSE LET old == eggProductions[input.id]
             row == [flock_id |-> IF input.flock_id # Undefined
                                  THEN input.flock_id ELSE old.flock_id,
                     production_date |-> IF input.production_date # Undefined
                                         THEN formatDateForDB(input.production_date)
                                         ELSE old.production_date,
                     quality |-> IF input.quality # UndefinedStr THEN input.quality ELSE "A",
                     quantity |-> IF input.quantity # Undefined
                                  THEN input.quantity ELSE old.quantity]
         IN  /\ eggProductions' = [eggProductions EXCEPT ![input.id] = row]
             /\ Return("updateEggProduction", input.id, row)
             /\ UNCHANGED <<rawFeedMaterials, finishedFeeds, feedCompositions, chickenFlocks,
                            feedConsumptions, eggSales, otherExpenses, seq>>

\* A variant of updateEggProduction that looks the flock up before the record.
updateEggProduction_flockFirst(input) ==
    IF input.flock_id # Undefined /\ input.flock_id \notin DOMAIN chickenFlocks
    THEN Throw("updateEggProduction", input.flock_id, "Flock does not exist")
    ELSE IF input.id \notin DOMAIN eggProductions
    THEN Throw("updateEggProduction", input.id, "Egg production record does not exist")
    ELSE IF /\ input.flock_id = Undefined /\ input.production_date = Undefined
            /\ input.quality = UndefinedStr /\ input.quantity = Undefined
    THEN Throw("updateEggProduction", input.id, "No values to set")
    ELSE LET old == eggProductions[input.id]
             row == [flock_id |-> IF input.flock_id # Undefined
                                  THEN input.flock_id ELSE old.flock_id,
                     production_date |-> IF input.production_date # Undefined
                                         THEN formatDateForDB(input.production_date)
                                         ELSE old.production_date,
                     quality |-> IF input.quality # UndefinedStr
                                 THEN input.quality ELSE old.quality,
                     quantity |-> IF input.quantity # Undefined
                                  THEN input.quantity ELSE old.quantity]
         IN  /\ eggProductions' = [eggProductions EXCEPT ![input.id] = row]
             /\ Return("updateEggProduction", input.id, row)
             /\ UNCHANGED <<rawFeedMaterials, finishedFeeds, feedCompositions, chickenFlocks,
                            feedConsumptions, eggSales, otherExpenses, seq>>

updateEggProduction(input) ==
    IF input.id \notin DOMAIN eggProductions
    THEN Throw("updateEggProduction", input.id, "Egg production record does not exist")
    ELSE IF input.flock_id # Undefined /\ input.flock_id \notin DOMAIN chickenFlocks
    THEN Throw("updateEggProduction", input.flock_id, "Flock does not exist")
    ELSE IF /\ input.flock_id = Undefined /\ input.production_date = Undefined
            /\ input.quality = UndefinedStr /\ input.quantity = Undefined
    THEN Throw("updateEggProduction", input.id, "No values to set")
    ELSE LET old == eggProductions[input.id]
             row == [flock_id |-> IF input.flock_id # Undefined
                                  THEN input.flock_id ELSE old.flock_id,
                     production_date |-> IF input.production_date # Undefined
                                         THEN formatDateForDB(input.production_date)
                                         ELSE old.production_date,
                     quality |-> IF input.quality # UndefinedStr
                                 THEN input.quality ELSE old.quality,
                     quantity |-> IF input.quantity # Undefined
                                  THEN input.quantity ELSE old.quantity]
         IN  /\ eggProductions' = [eggProductions EXCEPT ![input.id] = row]
             /\ Return("updateEggProduction", input.id, row)
             /\ UNCHANGED <<rawFeedMaterials, finishedFeeds, feedCompositions, chickenFlocks,
                            feedConsumptions, eggSales, otherExpenses, seq>>

deleteEggProduction(id) ==
    IF id \notin DOMAIN eggProductions
    THEN Throw("deleteEggProduction", id, "Egg production record does not exist")
    ELSE /\ eggProductions' = [i \in DOMAIN eggProductions \ {id} |-> eggProductions[i]]
         /\ Return("deleteEggProduction", id, Void)
         /\ UNCHANGED <<rawFeedMaterials, finishedFeeds, feedCompositions, chickenFlocks,
                        feedConsumptions, eggSales, otherExpenses, seq>>

----------------------------------------------------------------------------
(* Egg sales.  An input price_per_egg is counted in 1/100000 of a currency unit; *)
(* the price_per_egg column, numeric(6,4), holds 1/10000; total_price holds      *)
(* cents.                                                                        *)

\* One unit of the price_per_egg column, in units of the input price.
InputPricePerColumnPrice == 10
\* One cent, in units of the input price.
InputPricePerCent == 1000

\* quantity x price in doubles, stored in the numeric(10,2) total_price column:
\* the cents it can be stored as.  `price` is in units of the input price.
totalPrice(quantity, price) == FloatRounded(quantity * price, InputPricePerCent)

createEggSales(input) ==
    /\ CanInsert("egg_sales")
    /\ \E total_price \in totalPrice(input.quantity, input.price_per_egg) :
         LET id == NextId("egg_sales")
             row == [sale_date |-> formatDateForDB(input.sale_date),
                     quality |-> input.quality,
                     quantity |-> input.quantity,
                     price_per_egg |-> RoundHalfUp(input.price_per_egg, InputPricePerColumnPrice),
                     total_price |-> total_price]
         IN  /\ eggSales' = eggSales @@ (id :> row)
             /\ seq' = [seq EXCEPT !["egg_sales"] = id]
             /\ Return("createEggSales", id, row)
    /\ UNCHANGED <<rawFeedMaterials, finishedFeeds, feedCompositions, chickenFlocks,
                   feedConsumptions, eggProductions, otherExpenses>>

\* An update that never recomputes total_price.
updatedTotalPrice_keepsStored(input, current) == {current.total_price}

\* The total_price values updateEggSales can write for the stored row `current`:
\* the stored one when neither factor is given, else the product of the new
\* pair, where a factor not given is read back from the row.
updatedTotalPrice(input, current) ==
    IF input.quantity = Undefined /\ input.price_per_egg = Undefined
    THEN {current.total_price}
    ELSE totalPrice(IF input.quantity # Undefined THEN input.quantity ELSE current.quantity,
                    IF input.price_per_egg # Undefined
                    THEN input.price_per_egg
                    ELSE current.price_per_egg * InputPricePerColumnPrice)

\* The existence of the row is looked up before the UPDATE only when quantity or
\* price_per_egg is given; otherwise an UPDATE with no field is refused by the
\* query builder before it reaches the database.
updateEggSales(input) ==
    IF /\ (input.quantity # Undefined \/ input.price_per_egg # Undefined)
       /\ input.id \notin DOMAIN eggSales
    THEN Throw("updateEggSales", input.id, "Egg sale record not found")
    ELSE IF /\ input.sale_date = Undefined /\ input.quality = UndefinedStr
            /\ input.quantity = Undefined /\ input.price_per_egg = Undefined
    THEN Throw("updateEggSales", input.id, "No values to set")
    ELSE IF input.id \notin DOMAIN eggSales
    THEN Throw("updateEggSales", input.id, "Egg sale record not found")
    ELSE LET current == eggSales[input.id]
         IN  /\ \E total_price \in updatedTotalPrice(input, current) :
                  LET row == [sale_date |-> IF input.sale_date # Undefined
                                            THEN formatDateForDB(input.sale_date)
                                            ELSE current.sale_date,
                              quality |-> IF input.quality # UndefinedStr
                                          THEN input.quality ELSE current.quality,
                              quantity |-> IF input.quantity # Undefined
                                           THEN input.quantity ELSE current.quantity,
                              price_per_egg |-> IF input.price_per_egg # Undefined
                                                THEN RoundHalfUp(input.price_per_egg,
                                                                 InputPricePerColumnPrice)
                                                ELSE current.price_per_egg,
                              total_price |-> total_price]
                  IN  /\ eggSales' = [eggSales EXCEPT ![input.id] = row]
                      /\ Return("updateEggSales", input.id, row)
             /\ UNCHANGED <<rawFeedMaterials, finishedFeeds, feedCompositions, chickenFlocks,
                            feedConsumptions, eggProductions, otherExpenses, seq>>

deleteEggSales(id) ==
    IF id \notin DOMAIN eggSales
    THEN Throw("deleteEggSales", id, "Egg sale record not found")
    ELSE /\ eggSales' = [i \in DOMAIN eggSales \ {id} |-> eggSales[i]]
         /\ Return("deleteEggSales", id, Void)
         /\ UNCHANGED <<rawFeedMaterials, finishedFeeds, feedCompositions, chickenFlocks,
                        feedConsumptions, eggProductions, otherExpenses, seq>>

----------------------------------------------------------------------------
(* Other expenses.  An input amount is counted in tenths of a cent; the amount *)
(* column, numeric(10,2), holds cents.                                         *)

\* One cent, in units of the input amount.
InputAmountPerCent == 10

createOtherExpenses(input) ==
    LET id == NextId("other_expenses")
        row == [expense_date |-> formatDateForDB(input.expense_date),
                expense_type |-> input.expense_type,
                description |-> input.description,
                amount |-> RoundHalfUp(input.amount, InputAmountPerCent)]
    IN  /\ CanInsert("other_expenses")
        /\ otherExpenses' = otherExpenses @@ (id :> row)
        /\ seq' = [seq EXCEPT !["other_expenses"] = id]
        /\ Return("createOtherExpenses", id, row)
        /\ UNCHANGED <<rawFeedMaterials, finishedFeeds, feedCompositions, chickenFlocks,
                       feedConsumptions, eggProductions, eggSales>>

\* An UPDATE with no field is refused by the query builder before it reaches the
\* database, whether or not the row exists.
updateOtherExpenses(input) ==
    IF /\ input.expense_date = Undefined /\ input.expense_type = UndefinedStr
       /\ input.description = UndefinedStr /\ input.amount = Undefined
    THEN Throw("updateOtherExpenses", input.id, "No values to set")
    ELSE IF input.id \notin DOMAIN otherExpenses
    THEN Throw("updateOtherExpenses", input.id, "Other expense not found")
    ELSE LET old == otherExpenses[input.id]
             row == [expense_date |-> IF input.expense_date # Undefined
                                      THEN formatDateForDB(input.expense_date)
                                      ELSE old.expense_date,
                     expense_type |-> IF input.expense_type # UndefinedStr
                                      THEN input.expense_type ELSE old.expense_type,
                     description |-> IF input.description # UndefinedStr
                                     THEN input.description ELSE old.description,
                     amount |-> IF input.amount # Undefined
                                THEN RoundHalfUp(input.amount, InputAmountPerCent)
                                ELSE old.amount]
         IN  /\ otherExpenses' = [otherExpenses EXCEPT ![input.id] = row]
             /\ Return("updateOtherExpenses", input.id, row)
             /\ UNCHANGED <<rawFeedMaterials, finishedFeeds, feedCompositions, chickenFlocks,
                            feedConsumptions, eggProductions, eggSales, seq>>

deleteOtherExpenses(id) ==
    IF id \notin DOMAIN otherExpenses
    THEN Throw("deleteOtherExpenses", id, "Other expense not found")
    ELSE /\ otherExpenses' = [i \in DOMAIN otherExpenses \ {id} |-> otherExpenses[i]]
         /\ Return("deleteOtherExpenses", id, Void)
         /\ UNCHANGED <<rawFeedMaterials, finishedFeeds, feedCompositions, chickenFlocks,
                        feedConsumptions, eggProductions, eggSales, seq>>

----------------------------------------------------------------------------
(* Date-range queries and the profit report.  A query changes nothing; what it *)
(* resolves to is recorded in `last`.                                           *)

\* new Date('YYYY-MM-DD'): the instant at which the stored day begins (UTC).
dateFromDB(day) == 2 * day

\* A variant of InDateRange whose upper bound is exclusive.
InDateRange_exclusiveEnd(table, col, startDate, endDate) ==
    {i \in DOMAIN table : /\ formatDateForDB(startDate) <= table[i][col]
                          /\ table[i][col] < formatDateForDB(endDate)}

\* gte(col, start day) and lte(col, end day): the ids of the rows selected.
InDateRange(table, col, startDate, endDate) ==
    {i \in DOMAIN table : /\ formatDateForDB(startDate) <= table[i][col]
                          /\ table[i][col] <= formatDateForDB(endDate)}

\* The orders in which the database can return the rows S.
Orderings(S) ==
    {order \in [1..Cardinality(S) -> S] :
        \A i, j \in 1..Cardinality(S) : i # j => order[i] # order[j]}

\* A variant of DescendingOrderings without the ORDER BY: any order of the rows.
DescendingOrderings_unordered(table, col, S) == Orderings(S)

\* orderBy(desc(col)): rows of equal date come in any order.
DescendingOrderings(table, col, S) ==
    {order \in Orderings(S) :
        \A i, j \in 1..Cardinality(S) : i < j => table[order[i]][col] >= table[order[j]][col]}

convertEggSaleResult(id, dbResult) ==
    [id |-> id, sale_date |-> dateFromDB(dbResult.sale_date), quality |-> dbResult.quality,
     quantity |-> dbResult.quantity, price_per_egg |-> dbResult.price_per_egg,
     total_price |-> dbResult.total_price]

\* The lists getEggSalesByDateRange can resolve to (no ORDER BY).
getEggSalesByDateRange(startDate, endDate) ==
    {[i \in DOMAIN order |-> convertEggSaleResult(order[i], eggSales[order[i]])] :
        order \in Orderings(InDateRange(eggSales, "sale_date", startDate, endDate))}

convertOtherExpense(id, expense) ==
    [id |-> id, expense_date |-> dateFromDB(expense.expense_date),
     expense_type |-> expense.expense_type, description |-> expense.description,
     amount |-> expense.amount]

getOtherExpensesByDateRange(startDate, endDate) ==
    {[i \in DOMAIN order |-> convertOtherExpense(order[i], otherExpenses[order[i]])] :
        order \in DescendingOrderings(otherExpenses, "expense_date",
                     InDateRange(otherExpenses, "expense_date", startDate, endDate))}

convertEggProduction(id, result) ==
    [id |-> id, flock_id |-> result.flock_id,
     production_date |-> dateFromDB(result.production_date),
     quality |-> result.quality, quantity |-> result.quantity]

getEggProductionsByDateRange(startDate, endDate) ==
    {[i \in DOMAIN order |-> convertEggProduction(order[i], eggProductions[order[i]])] :
        order \in DescendingOrderings(eggProductions, "production_date",
                     InDateRange(eggProductions, "production_date", startDate, endDate))}

\* The lists getOtherExpenses can resolve to.
getOtherExpenses ==
    {[i \in DOMAIN order |-> convertOtherExpense(order[i], otherExpenses[order[i]])] :
        order \in DescendingOrderings(otherExpenses, "expense_date", DOMAIN otherExpenses)}

\* The lists getEggProductions can resolve to.
getEggProductions ==
    {[i \in DOMAIN order |-> convertEggProduction(order[i], eggProductions[order[i]])] :
        order \in DescendingOrderings(eggProductions, "production_date",
                                      DOMAIN eggProductions)}

\* The lists getEggProductionsByFlockId can resolve to.
getEggProductionsByFlockId(flockId) ==
    {[i \in DOMAIN order |-> convertEggProduction(order[i], eggProductions[order[i]])] :
        order \in DescendingOrderings(eggProductions, "production_date",
                     {p \in DOMAIN eggProductions : eggProductions[p].flock_id = flockId})}

\* A variant of sumInDateRange that sums the column over the whole table.
sumInDateRange_allRows(table, col, dateCol, startDate, endDate) ==
    IF DOMAIN table = {}
    THEN {}
    ELSE {SumOver([i \in DOMAIN table |-> table[i][col]], DOMAIN table)}

\* select sum(col) ... where the date is in range: the empty set stands for the
\* NULL that sum() yields over no rows.
sumInDateRange(table, col, dateCol, startDate, endDate) ==
    LET S == InDateRange(table, dateCol, startDate, endDate)
    IN  IF S = {} THEN {} ELSE {SumOver([i \in S |-> table[i][col]], S)}

\* total ? parseFloat(total) : 0
totalOrZero(total) == IF total = {} THEN 0 ELSE CHOOSE t \in total : TRUE

getTotalRevenueByDateRange(startDate, endDate) ==
    totalOrZero(sumInDateRange(eggSales, "total_price", "sale_date", startDate, endDate))

getTotalFeedCostByDateRange(startDate, endDate) ==
    totalOrZero(sumInDateRange(feedConsumptions, "cost", "consumption_date",
                               startDate, endDate))

getTotalExpensesByDateRange(startDate, endDate) ==
    totalOrZero(sumInDateRange(otherExpenses, "amount", "expense_date", startDate, endDate))

calculateTotalRevenue(startDate, endDate) ==
    totalOrZero(sumInDateRange(eggSales, "total_price", "sale_date", startDate, endDate))

calculateTotalFeedCost(startDate, endDate) ==
    totalOrZero(sumInDateRange(feedConsumptions, "cost", "consumption_date",
                               startDate, endDate))

calculateTotalOtherExpenses(startDate, endDate) ==
    totalOrZero(sumInDateRange(otherExpenses, "amount", "expense_date", startDate, endDate))

\* A variant of generateProfitReport that reports the period as the days the
\* totals were selected by.
generateProfitReport_periodAsDays(input) ==
    LET totalRevenue == calculateTotalRevenue(input.period_start, input.period_end)
        totalFeedCost == calculateTotalFeedCost(input.period_start, input.period_end)
        totalOtherExpenses == calculateTotalOtherExpenses(input.period_start, input.period_end)
    IN  [total_revenue |-> totalRevenue,
         total_feed_cost |-> totalFeedCost,
         total_other_expenses |-> totalOtherExpenses,
         total_profit |-> totalRevenue - totalFeedCost - totalOtherExpenses,
         period_start |-> dateFromDB(formatDateForDB(input.period_start)),
         period_end |-> dateFromDB(formatDateForDB(input.period_end))]

generateProfitReport(input) ==
    LET totalRevenue == calculateTotalRevenue(input.period_start, input.period_end)
        totalFeedCost == calculateTotalFeedCost(input.period_start, input.period_end)
        totalOtherExpenses == calculateTotalOtherExpenses(input.period_start, input.period_end)
    IN  [total_revenue |-> totalRevenue,
         total_feed_cost |-> totalFeedCost,
         total_other_expenses |-> totalOtherExpenses,
         total_profit |-> totalRevenue - totalFeedCost - totalOtherExpenses,
         period_start |-> input.period_start,
         period_end |-> input.period_end]

\* A call of the query `op` that resolved to val.
Query(op, val) == Return(op, 0, val) /\ UNCHANGED <<tables, seq>>

----------------------------------------------------------------------------
(* Export.  A buffer is the sequence of its text lines.  A date column is    *)
(* printed as its day number; created_at, a wall-clock column, as a fixed    *)
(* token.                                                                    *)

SupportedEntityTypes ==
    {"raw_materials", "finished_feeds", "flocks", "feed_consumption", "egg_production",
     "egg_sales", "other_expenses"}

\* filters[key] is truthy: the key is present and its value is neither 0 nor ''.
TruthyNum(v) == v # Undefined /\ v # 0
TruthyStr(s) == s # UndefinedStr /\ s # ""
\* A date filter is a 'YYYY-MM-DD' string, truthy whenever it is present.
TruthyDate(d) == d # Undefined

\* request.filters || {}
NoFilters ==
    [name |-> UndefinedStr, min_price |-> Undefined, strain |-> UndefinedStr,
     entry_date_from |-> Undefined, entry_date_to |-> Undefined, flock_id |-> Undefined,
     quality |-> UndefinedStr, date_from |-> Undefined, date_to |-> Undefined,
     expense_type |-> UndefinedStr]

\* The table an entity type is read from and the column its rows are ordered by.
EntityTable(entityType) ==
    CASE entityType = "raw_materials" -> rawFeedMaterials
      [] entityType = "finished_feeds" -> finishedFeeds
      [] entityType = "flocks" -> chickenFlocks
      [] entityType = "feed_consumption" -> feedConsumptions
      [] entityType = "egg_production" -> eggProductions
      [] entityType = "egg_sales" -> eggSales
      [] entityType = "other_expenses" -> otherExpenses

EntityDateColumn(entityType) ==
    CASE entityType = "feed_consumption" -> "consumption_date"
      [] entityType = "egg_production" -> "production_date"
      [] entityType = "egg_sales" -> "sale_date"
      [] entityType = "other_expenses" -> "expense_date"

\* and(...conditions): the conditions pushed for the truthy filters of the entity.
MatchesFilters(entityType, row, filters) ==
    CASE entityType = "raw_materials" ->
            /\ TruthyStr(filters.name) => row.name = filters.name
            /\ TruthyNum(filters.min_price) => row.price_per_kg >= filters.min_price
      [] entityType = "finished_feeds" ->
            TruthyStr(filters.name) => row.name = filters.name
      [] entityType = "flocks" ->
            /\ TruthyStr(filters.strain) => row.strain = filters.strain
            /\ TruthyDate(filters.entry_date_from) => row.entry_date >= filters.entry_date_from
            /\ TruthyDate(filters.entry_date_to) => row.entry_date <= filters.entry_date_to
      [] entityType = "feed_consumption" ->
            /\ TruthyNum(filters.flock_id) => row.flock_id = filters.flock_id
            /\ TruthyDate(filters.date_from) => row.consumption_date >= filters.date_from
            /\ TruthyDate(filters.date_to) => row.consumption_date <= filters.date_to
      [] entityType = "egg_production" ->
            /\ TruthyNum(filters.flock_id) => row.flock_id = filters.flock_id
            /\ TruthyStr(filters.quality) => row.quality = filters.quality
            /\ TruthyDate(filters.date_from) => row.production_date >= filters.date_from
            /\ TruthyDate(filters.date_to) => row.production_date <= filters.date_to
      [] entityType = "egg_sales" ->
            /\ TruthyStr(filters.quality) => row.quality = filters.quality
            /\ TruthyDate(filters.date_from) => row.sale_date >= filters.date_from
            /\ TruthyDate(filters.date_to) => row.sale_date <= filters.date_to
      [] entityType = "other_expenses" ->
            /\ TruthyStr(filters.expense_type) => row.expense_type = filters.expense_type
            /\ TruthyDate(filters.date_from) => row.expense_date >= filters.date_from
            /\ TruthyDate(filters.date_to) => row.expense_date <= filters.date_to

\* orderBy(desc(created_at)): created_at is the time of the insert, later for a
\* later id.
DescendingIds(S) ==
    {order \in Orderings(S) : \A i, j \in 1..Cardinality(S) : i < j => order[i] > order[j]}

\* The orders the rows S of an entity can be fetched in.
FetchOrderings(entityType, S) ==
    IF entityType \in {"raw_materials", "finished_feeds", "flocks"}
    THEN DescendingIds(S)
    ELSE DescendingOrderings(EntityTable(entityType), EntityDateColumn(entityType), S)

\* A variant of fetchDataByEntityType whose default case yields no rows.
fetchDataByEntityType_defaultEmpty(entityType, filters) ==
    IF entityType \notin SupportedEntityTypes
    THEN [err |-> "none", data |-> {<<>>}]
    ELSE LET table == EntityTable(entityType)
             S == {i \in DOMAIN table : MatchesFilters(entityType, table[i], filters)}
         IN  [err |-> "none",
              data |-> {[k \in DOMAIN order |-> [id |-> order[k]] @@ table[order[k]]] :
                           order \in FetchOrderings(entityType, S)}]

\* What fetchDataByEntityType does: it throws, or resolves to one of the lists in
\* data (the selected rows, each with its id, in one of the possible orders).
fetchDataByEntityType(entityType, filters) ==
    IF entityType \notin SupportedEntityTypes
    THEN [err |-> "Unsupported entity type", data |-> {}]
    ELSE LET table == EntityTable(entityType)
             S == {i \in DOMAIN table : MatchesFilters(entityType, table[i], filters)}
         IN  [err |-> "none",
              data |-> {[k \in DOMAIN order |-> [id |-> order[k]] @@ table[order[k]]] :
                           order \in FetchOrderings(entityType, S)}]

\* The last `width` decimal digits of n.
RECURSIVE Digits(_, _)
Digits(n, width) ==
    IF width = 0 THEN "" ELSE Digits(n \div 10, width - 1) \o ToString(n % 10)

\* (n / 10^scale).toFixed(scale) for a column value n that counts 10^-scale.
toFixed(n, scale) ==
    LET unit == IF scale = 2 THEN 100 ELSE 10000
    IN  ToString(n \div unit) \o "." \o Digits(n % unit, scale)

\* The text of a wall-clock timestamp, which is not part of the state.
CreatedAtText == "created_at"

getTableHeaders(entityType) ==
    CASE entityType = "raw_materials" -> <<"ID", "Name", "Price per KG", "Created At">>
      [] entityType = "finished_feeds" -> <<"ID", "Name", "Cost per KG", "Created At">>
      [] entityType = "flocks" ->
            <<"ID", "Strain", "Entry Date", "Initial Count", "Current Count">>
      [] entityType = "feed_consumption" ->
            <<"ID", "Flock ID", "Feed ID", "Date", "Quantity (KG)", "Cost">>
      [] entityType = "egg_production" -> <<"ID", "Flock ID", "Date", "Quality", "Quantity">>
      [] entityType = "egg_sales" ->
            <<"ID", "Sale Date", "Quality", "Quantity", "Price per Egg", "Total Price">>
      [] entityType = "other_expenses" -> <<"ID", "Date", "Type", "Description", "Amount">>
      [] OTHER -> <<"Data">>

getRowValues(row, entityType) ==
    CASE entityType = "raw_materials" ->
            <<ToString(row.id), row.name, toFixed(row.price_per_kg, 2), CreatedAtText>>
      [] entityType = "finished_feeds" ->
            <<ToString(row.id), row.name, toFixed(row.cost_per_kg, 2), CreatedAtText>>
      [] entityType = "flocks" ->
            <<ToString(row.id), row.strain, ToString(row.entry_date),
              ToString(row.initial_count), ToString(row.current_count)>>
      [] entityType = "feed_consumption" ->
            <<ToString(row.id), ToString(row.flock_id), ToString(row.finished_feed_id),
              ToString(row.consumption_date), toFixed(row.quantity_kg, 2),
              toFixed(row.cost, 2)>>
      [] entityType = "egg_production" ->
            <<ToString(row.id), ToString(row.flock_id), ToString(row.production_date),
              row.quality, ToString(row.quantity)>>
      [] entityType = "egg_sales" ->
            <<ToString(row.id), ToString(row.sale_date), row.quality,
              ToString(row.quantity), toFixed(row.price_per_egg, 4),
              toFixed(row.total_price, 2)>>
      [] entityType = "other_expenses" ->
            <<ToString(row.id), ToString(row.expense_date), row.expense_type,
              row.description, toFixed(row.amount, 2)>>
      [] OTHER -> <<"{}">>

\* fields.join(sep)
RECURSIVE Join(_, _)
Join(fields, sep) ==
    IF fields = <<>> THEN ""
    ELSE IF Len(fields) = 1 THEN fields[1]
    ELSE fields[1] \o sep \o Join(Tail(fields), sep)

\* entityType.toUpperCase().replace('_', ' ')
ReportTitle(entityType) ==
    CASE entityType = "raw_materials" -> "RAW MATERIALS"
      [] entityType = "finished_feeds" -> "FINISHED FEEDS"
      [] entityType = "flocks" -> "FLOCKS"
      [] entityType = "feed_consumption" -> "FEED CONSUMPTION"
      [] entityType = "egg_production" -> "EGG PRODUCTION"
      [] entityType = "egg_sales" -> "EGG SALES"
      [] entityType = "other_expenses" -> "OTHER EXPENSES"
      [] OTHER -> "REPORT"

\* '-'.repeat(n)
RECURSIVE Dashes(_)
Dashes(n) == IF n = 0 THEN "" ELSE "-" \o Dashes(n - 1)

\* Title, generation date, an empty line, the headers, a rule, one line per row.
generatePDF(data, entityType) ==
    LET headers == Join(getTableHeaders(entityType), " | ")
    IN  <<ReportTitle(entityType) \o " Report", "Generated on: today", "", headers,
          Dashes(Len(headers))>>
        \o [k \in DOMAIN data |-> Join(getRowValues(data[k], entityType), " | ")]

\* A variant of generateExcel that leaves the header line out.
generateExcel_noHeader(data, sheetName) ==
    [k \in DOMAIN data |->
        Join([f \in DOMAIN getRowValues(data[k], sheetName) |->
                 "\"" \o getRowValues(data[k], sheetName)[f] \o "\""], ",")]

\* The headers, then one line of quoted fields per row.
generateExcel(data, sheetName) ==
    <<Join(getTableHeaders(sheetName), ",")>>
    \o [k \in DOMAIN data |->
           Join([f \in DOMAIN getRowValues(data[k], sheetName) |->
                    "\"" \o getRowValues(data[k], sheetName)[f] \o "\""], ",")]

exportData(request) ==
    LET fetched == fetchDataByEntityType(request.entity_type, request.filters)
    IN  IF fetched.err # "none"
        THEN Throw("exportData", 0, fetched.err)
        ELSE \E data \in fetched.data :
                Query("exportData",
                      [buffer |-> IF request.format = "pdf"
                                  THEN generatePDF(data, request.entity_type)
                                  ELSE generateExcel(data, request.entity_type)])

----------------------------------------------------------------------------
(* Inputs of the feed-formulation handlers *)

Names == {"a", "b"}
\* price_per_kg in cents: 2.50, 3.20
Prices == {250, 320}
\* percentage in hundredths of a percent: 40, 60, 60.20
Percentages == {4000, 6000, 6020}

CreateRawFeedMaterialInputs == [name : {"a"}, price_per_kg : Prices]
UpdateRawFeedMaterialInputs ==
    [id : Ids("raw_feed_materials"), name : {UndefinedStr}, price_per_kg : Prices \cup {Undefined}]
CreateFinishedFeedInputs == [name : {"a"}]
UpdateFinishedFeedInputs == [id : Ids("finished_feeds"), name : {UndefinedStr, "a"}]
CreateFeedCompositionInputs ==
    [finished_feed_id : Ids("finished_feeds"), raw_material_id : Ids("raw_feed_materials"),
     percentage : Percentages]
UpdateFeedCompositionInputs ==
    [id : Ids("feed_compositions"), percentage : Percentages \cup {Undefined}]

NextFeed ==
    \/ \E input \in CreateRawFeedMaterialInputs : createRawFeedMaterial(input) /\ RowsInserted' <= MaxRows
    \/ \E input \in UpdateRawFeedMaterialInputs : updateRawFeedMaterial(input)
    \/ \E id \in Ids("raw_feed_materials") : deleteRawFeedMaterial(id)
    \/ \E input \in CreateFinishedFeedInputs : createFinishedFeed(input) /\ RowsInserted' <= MaxRows
    \/ \E input \in UpdateFinishedFeedInputs : updateFinishedFeed(input)
    \/ \E id \in Ids("finished_feeds") : deleteFinishedFeed(id)
    \/ \E id \in Ids("finished_feeds") : calculateFeedCost(id)
    \/ \E input \in CreateFeedCompositionInputs : createFeedComposition(input) /\ RowsInserted' <= MaxRows
    \/ \E input \in UpdateFeedCompositionInputs : updateFeedComposition(input)
    \/ \E id \in Ids("feed_compositions") : deleteFeedComposition(id)

SpecFeed == Init /\ [][NextFeed]_vars

----------------------------------------------------------------------------
(* Feed cost: claims C1, C2 *)

CompositionWrites == {"createFeedComposition", "updateFeedComposition", "deleteFeedComposition"}

\* The step is a composition write that returned successfully.
CompositionWritten == last'.op \in CompositionWrites /\ last'.err = "none"

\* The finished feed that the composition written by the step references.
WrittenFeed ==
    IF last'.op = "deleteFeedComposition"
    THEN feedCompositions[last'.id].finished_feed_id
    ELSE last'.val.finished_feed_id

\* cost_per_kg of feed f is the sum over the compositions of f of
\* percentage/100 x price_per_kg, to the cent that the column can hold.
CostIsWeightedSum(f, feeds, comps, mats) ==
    feeds[f].cost_per_kg \in FloatRounded(WeightedCost(f, comps, mats), CentInWeightedCost)

\* C1: once a composition write on finished feed F has completed, F.cost_per_kg
\* equals the weighted sum over F's compositions (read to the cent), and keeps
\* doing so whatever operation follows.  As a step property: a feed whose cost is
\* the weighted sum, or whose composition was just written, has the weighted sum as
\* its cost after the step.  (A feed that never had a composition write has no
\* composition and cost 0, so only steps after a write can break this.)
C1_CostStaysWeightedSum ==
    [][\A f \in DOMAIN finishedFeeds' :
          (\/ (CompositionWritten /\ WrittenFeed = f)
           \/ (/\ f \in DOMAIN finishedFeeds
               /\ CostIsWeightedSum(f, finishedFeeds, feedCompositions, rawFeedMaterials)))
          => CostIsWeightedSum(f, finishedFeeds', feedCompositions', rawFeedMaterials')]_vars

\* C2: when a composition create, update or delete returns successfully, the
\* cost_per_kg stored on the referenced finished feed is the weighted sum over the
\* compositions stored at that moment, rounded to the cent, and it is 0 when the
\* feed is left with no composition.
C2_CompositionWriteRecomputesCost ==
    [][CompositionWritten =>
          LET f == WrittenFeed
          IN  /\ f \in DOMAIN finishedFeeds'
              /\ CostIsWeightedSum(f, finishedFeeds', feedCompositions', rawFeedMaterials')
              /\ (JoinedCompositions(f, feedCompositions', rawFeedMaterials') = {}
                    => finishedFeeds'[f].cost_per_kg = 0)]_vars

\* C2 witness: a composition was just created and some feed holds exactly
\* 60% of a 2.50 material and 40% of a 3.20 material, with cost 2.78.
C2_Witness ==
    /\ last.op = "createFeedComposition" /\ last.err = "none"
    /\ \E f \in DOMAIN finishedFeeds :
          /\ finishedFeeds[f].cost_per_kg = 278
          /\ {<<feedCompositions[c].percentage,
                rawFeedMaterials[feedCompositions[c].raw_material_id].price_per_kg>> :
                 c \in JoinedCompositions(f, feedCompositions, rawFeedMaterials)}
             = {<<6000, 250>>, <<4000, 320>>}
          /\ Cardinality(JoinedCompositions(f, feedCompositions, rawFeedMaterials)) = 2

----------------------------------------------------------------------------
(* Inputs of the egg-sales handlers *)

\* Instants are half-days: the instants of day d are 2d and 2d + 1.
Instants == 0..(2 * MaxDay + 1)
Qualities == {"A", "B", "cracked"}
EggQuantities == {1, 1000}
\* price_per_egg in 1/100000: 0.25, 0.125, 0.12345
EggPrices == {25000, 12500, 12345}

CreateEggSalesInputs ==
    [sale_date : {1}, quality : {"A"}, quantity : EggQuantities, price_per_egg : EggPrices]
UpdateEggSalesInputs ==
    [id : Ids("egg_sales"), sale_date : {Undefined}, quality : {UndefinedStr},
     quantity : EggQuantities \cup {Undefined}, price_per_egg : EggPrices \cup {Undefined}]

NextSales ==
    \/ \E input \in CreateEggSalesInputs :
          createEggSales(input) /\ RowsInserted' <= MaxSalesRows
    \/ \E input \in UpdateEggSalesInputs : updateEggSales(input)
    \/ \E id \in Ids("egg_sales") : deleteEggSales(id)

SpecSales == Init /\ [][NextSales]_vars

----------------------------------------------------------------------------
(* Egg sale totals: claim C3 *)

\* C3 as stated: every stored egg sale has total_price = quantity x
\* price_per_egg exactly (total_price in cents, price_per_egg in 1/10000).
C3_TotalIsExactProduct ==
    \A id \in DOMAIN eggSales :
        eggSales[id].total_price * 100 = eggSales[id].quantity * eggSales[id].price_per_egg

\* `total` cents is `product` (in 1/100000) rounded to the nearest cent.
IsRoundedToCent(total, product) ==
    /\ 2 * product - InputPricePerCent <= 2 * InputPricePerCent * total
    /\ 2 * InputPricePerCent * total <= 2 * product + InputPricePerCent

\* C3, amended: after createEggSales, and after an updateEggSales that provides
\* quantity, price_per_egg or both, the stored total_price is quantity x
\* price_per_egg rounded to the nearest cent, where the price is the one passed
\* to the call (before it is rounded to four decimals for storage) and, for an
\* update that passes none, the stored one; a factor the update does not
\* provide keeps its stored value.
C3_TotalIsProductRoundedToCent ==
    [][/\ last'.op = "createEggSales" =>
            \A input \in CreateEggSalesInputs :
                createEggSales(input) =>
                    IsRoundedToCent(eggSales'[last'.id].total_price,
                                    input.quantity * input.price_per_egg)
       /\ (last'.op = "updateEggSales" /\ last'.err = "none") =>
            \A input \in UpdateEggSalesInputs :
                (/\ input.id = last'.id
                 /\ (input.quantity # Undefined \/ input.price_per_egg # Undefined)
                 /\ updateEggSales(input)) =>
                    LET old == eggSales[input.id]
                        new == eggSales'[input.id]
                    IN  /\ input.quantity = Undefined => new.quantity = old.quantity
                        /\ input.price_per_egg = Undefined =>
                               new.price_per_egg = old.price_per_egg
                        /\ IsRoundedToCent(new.total_price,
                               new.quantity * (IF input.price_per_egg # Undefined
                                               THEN input.price_per_egg
                                               ELSE old.price_per_egg * InputPricePerColumnPrice))
      ]_vars

\* A sale created for 1 egg at 0.12345 (stored 0.1235, total 0.12) whose
\* quantity was then updated to 1000: the total is recomputed from the stored
\* price, 123.50.
C3_Witness ==
    /\ last.op = "updateEggSales"
    /\ last.err = "none"
    /\ last.id \in DOMAIN eggSales
    /\ eggSales[last.id].quantity = 1000
    /\ eggSales[last.id].price_per_egg = 1235
    /\ eggSales[last.id].total_price = 12350

----------------------------------------------------------------------------
(* Inputs of create, update and delete for all eight entities, one value per   *)
(* field: what varies is which ids exist and which fields an update provides.  *)

Strains == {"s"}
ExpenseTypes == {"medication", "electricity", "labor", "other"}

CrudCreateRawFeedMaterialInputs == [name : {"a"}, price_per_kg : {250}]
CrudUpdateRawFeedMaterialInputs ==
    [id : Ids("raw_feed_materials"), name : {UndefinedStr}, price_per_kg : {Undefined, 250}]
CrudCreateFeedCompositionInputs ==
    [finished_feed_id : Ids("finished_feeds"), raw_material_id : Ids("raw_feed_materials"),
     percentage : {4000}]
CrudUpdateFeedCompositionInputs ==
    [id : Ids("feed_compositions"), percentage : {Undefined, 4000}]
CreateChickenFlockInputs ==
    [strain : Strains, entry_date : {1}, initial_count : {100}, age_upon_entry_days : {0}]
UpdateChickenFlockInputs ==
    [id : Ids("chicken_flocks"), strain : {UndefinedStr}, entry_date : {Undefined},
     initial_count : {Undefined}, age_upon_entry_days : {Undefined},
     current_count : {Undefined, 100}]
CrudCreateFeedConsumptionInputs ==
    [flock_id : Ids("chicken_flocks"), finished_feed_id : Ids("finished_feeds"),
     consumption_date : {1}, quantity_kg : {2000}]
CrudUpdateFeedConsumptionInputs ==
    [id : Ids("feed_consumptions"), flock_id : {Undefined}, finished_feed_id : {Undefined},
     consumption_date : {Undefined, 1}, quantity_kg : {Undefined}]
CreateEggProductionInputs ==
    [flock_id : Ids("chicken_flocks"), production_date : {1}, quality : {"A"}, quantity : {30}]
UpdateEggProductionInputs ==
    [id : Ids("egg_productions"), flock_id : {Undefined}, production_date : {Undefined},
     quality : {UndefinedStr}, quantity : {Undefined, 30}]
CrudCreateEggSalesInputs ==
    [sale_date : {1}, quality : {"A"}, quantity : {1}, price_per_egg : {25000}]
CrudUpdateEggSalesInputs ==
    [id : Ids("egg_sales"), sale_date : {Undefined, 1}, quality : {UndefinedStr},
     quantity : {Undefined, 1}, price_per_egg : {Undefined}]
CreateOtherExpensesInputs ==
    [expense_date : {1}, expense_type : {"labor"}, description : {"d"}, amount : {1000}]
UpdateOtherExpensesInputs ==
    [id : Ids("other_expenses"), expense_date : {Undefined}, expense_type : {UndefinedStr},
     description : {UndefinedStr}, amount : {Undefined, 1000}]

NextCrud ==
    \/ \E input \in CrudCreateRawFeedMaterialInputs : createRawFeedMaterial(input) /\ RowsInserted' <= MaxCrudRows
    \/ \E input \in CrudUpdateRawFeedMaterialInputs : updateRawFeedMaterial(input)
    \/ \E id \in Ids("raw_feed_materials") : deleteRawFeedMaterial(id)
    \/ \E input \in CreateFinishedFeedInputs : createFinishedFeed(input) /\ RowsInserted' <= MaxCrudRows
    \/ \E input \in UpdateFinishedFeedInputs : updateFinishedFeed(input)
    \/ \E id \in Ids("finished_feeds") : deleteFinishedFeed(id)
    \/ \E input \in CrudCreateFeedCompositionInputs : createFeedComposition(input) /\ RowsInserted' <= MaxCrudRows
    \/ \E input \in CrudUpdateFeedCompositionInputs : updateFeedComposition(input)
    \/ \E id \in Ids("feed_compositions") : deleteFeedComposition(id)
    \/ \E input \in CreateChickenFlockInputs : createChickenFlock(input) /\ RowsInserted' <= MaxCrudRows
    \/ \E input \in UpdateChickenFlockInputs : updateChickenFlock(input)
    \/ \E id \in Ids("chicken_flocks") : deleteChickenFlock(id)
    \/ \E input \in CrudCreateFeedConsumptionInputs : createFeedConsumption(input) /\ RowsInserted' <= MaxCrudRows
    \/ \E input \in CrudUpdateFeedConsumptionInputs : updateFeedConsumption(input)
    \/ \E id \in Ids("feed_consumptions") : deleteFeedConsumption(id)
    \/ \E input \in CreateEggProductionInputs : createEggProduction(input) /\ RowsInserted' <= MaxCrudRows
    \/ \E input \in UpdateEggProductionInputs : updateEggProduction(input)
    \/ \E id \in Ids("egg_productions") : deleteEggProduction(id)
    \/ \E input \in CrudCreateEggSalesInputs : createEggSales(input) /\ RowsInserted' <= MaxCrudRows
    \/ \E input \in CrudUpdateEggSalesInputs : updateEggSales(input)
    \/ \E id \in Ids("egg_sales") : deleteEggSales(id)
    \/ \E input \in CreateOtherExpensesInputs : createOtherExpenses(input) /\ RowsInserted' <= MaxCrudRows
    \/ \E input \in UpdateOtherExpensesInputs : updateOtherExpenses(input)
    \/ \E id \in Ids("other_expenses") : deleteOtherExpenses(id)

SpecCrud == Init /\ [][NextCrud]_vars

----------------------------------------------------------------------------
(* Missing ids and deletes: claims C4, C5, C6 *)

\* The stored tables by name.
Table ==
    [raw_feed_materials |-> rawFeedMaterials, finished_feeds |-> finishedFeeds,
     feed_compositions |-> feedCompositions, chicken_flocks |-> chickenFlocks,
     feed_consumptions |-> feedConsumptions, egg_productions |-> eggProductions,
     egg_sales |-> eggSales, other_expenses |-> otherExpenses]

\* The table each delete handler deletes from.
DeleteTable ==
    [deleteRawFeedMaterial |-> "raw_feed_materials", deleteFinishedFeed |-> "finished_feeds",
     deleteFeedComposition |-> "feed_compositions", deleteChickenFlock |-> "chicken_flocks",
     deleteFeedConsumption |-> "feed_consumptions", deleteEggProduction |-> "egg_productions",
     deleteEggSales |-> "egg_sales", deleteOtherExpenses |-> "other_expenses"]

NotFoundErrors ==
    {"Raw feed material not found", "Finished feed not found", "Feed composition not found",
     "Chicken flock not found", "Feed consumption not found",
     "Egg production record does not exist", "Egg sale record not found",
     "Other expense not found"}

\* The step rejected with a not-found error and changed no table.
RejectedAsNotFound == last'.err \in NotFoundErrors /\ UNCHANGED tables

\* Every step of the update handler `op` called with an input whose id is not
\* in `table` rejected as not found.
UpdateOfMissingId(op, Update(_), inputs, table) ==
    last'.op = op =>
        \A input \in inputs :
            (input.id \notin DOMAIN table /\ Update(input)) => RejectedAsNotFound

\* The same for the delete handler `op`.
DeleteOfMissingId(op, Delete(_)) ==
    last'.op = op =>
        \A id \in Ids(DeleteTable[op]) :
            (id \notin DOMAIN Table[DeleteTable[op]] /\ Delete(id)) => RejectedAsNotFound

\* Updates and deletes of a missing id are rejected as not found, for the
\* handlers that look the row up, or count the rows the statement touched,
\* whatever the input holds.
MissingIdRejectedByChecks ==
    /\ UpdateOfMissingId("updateRawFeedMaterial", updateRawFeedMaterial,
                         CrudUpdateRawFeedMaterialInputs, rawFeedMaterials)
    /\ UpdateOfMissingId("updateFinishedFeed", updateFinishedFeed,
                         UpdateFinishedFeedInputs, finishedFeeds)
    /\ UpdateOfMissingId("updateFeedComposition", updateFeedComposition,
                         CrudUpdateFeedCompositionInputs, feedCompositions)
    /\ UpdateOfMissingId("updateChickenFlock", updateChickenFlock,
                         UpdateChickenFlockInputs, chickenFlocks)
    /\ UpdateOfMissingId("updateFeedConsumption", updateFeedConsumption,
                         CrudUpdateFeedConsumptionInputs, feedConsumptions)
    /\ UpdateOfMissingId("updateEggProduction", updateEggProduction,
                         UpdateEggProductionInputs, eggProductions)
    /\ DeleteOfMissingId("deleteRawFeedMaterial", deleteRawFeedMaterial)
    /\ DeleteOfMissingId("deleteFinishedFeed", deleteFinishedFeed)
    /\ DeleteOfMissingId("deleteFeedComposition", deleteFeedComposition)
    /\ DeleteOfMissingId("deleteChickenFlock", deleteChickenFlock)
    /\ DeleteOfMissingId("deleteFeedConsumption", deleteFeedConsumption)
    /\ DeleteOfMissingId("deleteEggProduction", deleteEggProduction)
    /\ DeleteOfMissingId("deleteEggSales", deleteEggSales)
    /\ DeleteOfMissingId("deleteOtherExpenses", deleteOtherExpenses)

\* C4: for every entity, an update or a delete called with an id that resolves
\* to no stored record fails with a not-found error and leaves every table
\* unchanged.
C4_MissingIdIsNotFound ==
    [][/\ MissingIdRejectedByChecks
       /\ UpdateOfMissingId("updateEggSales", updateEggSales,
                            CrudUpdateEggSalesInputs, eggSales)
       /\ UpdateOfMissingId("updateOtherExpenses", updateOtherExpenses,
                            UpdateOtherExpensesInputs, otherExpenses)]_vars

\* What holds of the handlers other than updateEggSales and updateOtherExpenses,
\* and of these two when the input provides at least one field.
C4_MissingIdIsNotFoundUnlessEmptyUpdate ==
    [][/\ MissingIdRejectedByChecks
       /\ UpdateOfMissingId("updateEggSales", updateEggSales,
                            {input \in CrudUpdateEggSalesInputs :
                                input.sale_date # Undefined \/ input.quantity # Undefined},
                            eggSales)
       /\ UpdateOfMissingId("updateOtherExpenses", updateOtherExpenses,
                            {input \in UpdateOtherExpensesInputs : input.amount # Undefined},
                            otherExpenses)]_vars

\* The step is a delete that returned successfully.
Deleted == last'.op \in DOMAIN DeleteTable /\ last'.err = "none"

\* `after` is `before` without row id.
RemovedOnly(before, after, id) ==
    /\ id \in DOMAIN before
    /\ after = [i \in DOMAIN before \ {id} |-> before[i]]

\* C5 as stated: a successful delete removes exactly the record it names, and
\* every other record of every entity stays as it was, in all of its fields.
C5_DeleteRemovesOnlyThatRecord ==
    [][Deleted =>
          /\ RemovedOnly(Table[DeleteTable[last'.op]], Table'[DeleteTable[last'.op]], last'.id)
          /\ \A t \in TableNames \ {DeleteTable[last'.op]} : Table'[t] = Table[t]]_vars

\* C5, amended: a successful delete removes exactly the record it names and
\* leaves every other record unchanged, except that deleteFeedComposition also
\* rewrites cost_per_kg of the finished feed that the deleted composition
\* referenced, to the weighted sum over the compositions that remain (0 when
\* none remains); the feed's name, every other finished feed and every other
\* table are unchanged.
C5_DeleteRemovesThatRecordAndRecomputesCost ==
    [][Deleted =>
          /\ RemovedOnly(Table[DeleteTable[last'.op]], Table'[DeleteTable[last'.op]], last'.id)
          /\ \A t \in TableNames \ {DeleteTable[last'.op], "finished_feeds"} :
                Table'[t] = Table[t]
          /\ last'.op # "deleteFinishedFeed" =>
                IF last'.op = "deleteFeedComposition"
                THEN LET f == feedCompositions[last'.id].finished_feed_id
                     IN  /\ DOMAIN finishedFeeds' = DOMAIN finishedFeeds
                         /\ \A g \in DOMAIN finishedFeeds \ {f} :
                                finishedFeeds'[g] = finishedFeeds[g]
                         /\ finishedFeeds'[f].name = finishedFeeds[f].name
                         /\ CostIsWeightedSum(f, finishedFeeds', feedCompositions',
                                              rawFeedMaterials')
                ELSE finishedFeeds' = finishedFeeds]_vars

\* The only composition of a finished feed (40% of a material at 2.50, cost
\* 1.00) was deleted: the composition is gone, the material is still stored and
\* the feed now costs 0.
C5_Witness ==
    /\ last.op = "deleteFeedComposition"
    /\ last.err = "none"
    /\ feedCompositions = NoRows
    /\ seq["feed_compositions"] = 1
    /\ \E m \in DOMAIN rawFeedMaterials : rawFeedMaterials[m].price_per_kg = 250
    /\ \E f \in DOMAIN finishedFeeds : finishedFeeds[f].cost_per_kg = 0

\* C6: createFeedConsumption, createEggProduction and createFeedComposition
\* called with a flock, finished feed or raw material id that is not stored
\* fail with the error of the first missing record (flock before feed, feed
\* before material), quoting its id, insert no row and leave every stored row,
\* finished-feed costs included, unchanged.
C6_CreateWithMissingReferenceRejected ==
    [][/\ last'.op = "createFeedConsumption" =>
            \A input \in CrudCreateFeedConsumptionInputs :
                (/\ \/ input.flock_id \notin DOMAIN chickenFlocks
                    \/ input.finished_feed_id \notin DOMAIN finishedFeeds
                 /\ createFeedConsumption(input)) =>
                    /\ UNCHANGED <<tables, seq>>
                    /\ IF input.flock_id \notin DOMAIN chickenFlocks
                       THEN last'.err = "Flock not found" /\ last'.id = input.flock_id
                       ELSE /\ last'.err = "Finished feed not found"
                            /\ last'.id = input.finished_feed_id
       /\ last'.op = "createEggProduction" =>
            \A input \in CreateEggProductionInputs :
                (input.flock_id \notin DOMAIN chickenFlocks /\ createEggProduction(input)) =>
                    /\ UNCHANGED <<tables, seq>>
                    /\ last'.err = "Flock does not exist" /\ last'.id = input.flock_id
       /\ last'.op = "createFeedComposition" =>
            \A input \in CrudCreateFeedCompositionInputs :
                (/\ \/ input.finished_feed_id \notin DOMAIN finishedFeeds
                    \/ input.raw_material_id \notin DOMAIN rawFeedMaterials
                 /\ createFeedComposition(input)) =>
                    /\ UNCHANGED <<tables, seq>>
                    /\ IF input.finished_feed_id \notin DOMAIN finishedFeeds
                       THEN /\ last'.err = "Finished feed not found"
                            /\ last'.id = input.finished_feed_id
                       ELSE /\ last'.err = "Raw material not found"
                            /\ last'.id = input.raw_material_id
      ]_vars

\* createFeedConsumption was refused for a missing finished feed (id 2) while a
\* flock and a finished feed with a computed cost of 1.00 are stored.
C6_Witness ==
    /\ last.op = "createFeedConsumption"
    /\ last.err = "Finished feed not found"
    /\ last.id = 2
    /\ 1 \in DOMAIN chickenFlocks
    /\ 1 \in DOMAIN finishedFeeds
    /\ finishedFeeds[1].cost_per_kg = 100
    /\ feedConsumptions = NoRows

----------------------------------------------------------------------------
(* Inputs of the list queries by date range *)

\* The instants rows are created with: midnight of the even days, noon of the
\* odd ones.
RowInstants == {2 * d + (d % 2) : d \in 0..MaxDay}
\* The instants queries are called with: from noon of day 0 to midnight of day
\* MaxDay, so that the days in between are bounded by both of their instants.
QueryInstants == 1..(2 * MaxDay)

QueryCreateEggSalesInputs ==
    [sale_date : RowInstants, quality : {"A"}, quantity : {1}, price_per_egg : {25000}]
QueryCreateOtherExpensesInputs ==
    [expense_date : RowInstants, expense_type : {"labor"}, description : {"d"},
     amount : {1000}]
QueryCreateEggProductionInputs ==
    [flock_id : Ids("chicken_flocks"), production_date : RowInstants, quality : {"A"},
     quantity : {30}]

NextQuery ==
    \/ \E input \in QueryCreateEggSalesInputs :
          createEggSales(input) /\ RowsInserted' <= MaxQueryRows
    \/ \E id \in Ids("egg_sales") : deleteEggSales(id)
    \/ \E input \in QueryCreateOtherExpensesInputs :
          createOtherExpenses(input) /\ RowsInserted' <= MaxQueryRows
    \/ \E input \in CreateChickenFlockInputs :
          createChickenFlock(input) /\ RowsInserted' <= MaxQueryRows
    \/ \E input \in QueryCreateEggProductionInputs :
          createEggProduction(input) /\ RowsInserted' <= MaxQueryRows
    \/ \E startDate, endDate \in QueryInstants :
          \E val \in getEggSalesByDateRange(startDate, endDate) :
              Query("getEggSalesByDateRange", val)
    \/ \E startDate, endDate \in QueryInstants :
          \E val \in getOtherExpensesByDateRange(startDate, endDate) :
              Query("getOtherExpensesByDateRange", val)
    \/ \E startDate, endDate \in QueryInstants :
          \E val \in getEggProductionsByDateRange(startDate, endDate) :
              Query("getEggProductionsByDateRange", val)

SpecQuery == Init /\ [][NextQuery]_vars

----------------------------------------------------------------------------
(* List queries by date range: claim C7 *)

\* val lists, once each, exactly the rows of `table` whose day in column col
\* lies between the days of the instants startDate and endDate, both included,
\* with the stored fields and the date read back as the instant the day begins.
ListsRowsInRange(val, table, col, startDate, endDate) ==
    LET expected == {i \in DOMAIN table : /\ startDate \div 2 <= table[i][col]
                                          /\ table[i][col] <= endDate \div 2}
    IN  /\ Len(val) = Cardinality(expected)
        /\ {val[k].id : k \in DOMAIN val} = expected
        /\ \A k \in DOMAIN val :
              /\ val[k][col] = 2 * table[val[k].id][col]
              /\ \A field \in DOMAIN table[val[k].id] \ {col} :
                    val[k][field] = table[val[k].id][field]

\* C7: getEggSalesByDateRange, getOtherExpensesByDateRange and
\* getEggProductionsByDateRange return exactly the stored rows whose date d
\* satisfies start <= d <= end, start and end being taken as the calendar days
\* (UTC) of the instants passed: rows dated on the day of start or of end are
\* included, no row dated on an earlier or later day is returned.
C7_ListQueriesReturnRowsInRange ==
    \A startDate, endDate \in QueryInstants :
        /\ \A val \in getEggSalesByDateRange(startDate, endDate) :
              ListsRowsInRange(val, eggSales, "sale_date", startDate, endDate)
        /\ \A val \in getOtherExpensesByDateRange(startDate, endDate) :
              ListsRowsInRange(val, otherExpenses, "expense_date", startDate, endDate)
        /\ \A val \in getEggProductionsByDateRange(startDate, endDate) :
              ListsRowsInRange(val, eggProductions, "production_date", startDate, endDate)

\* Sales are stored on days 0, 1 and 2 and getEggSalesByDateRange has returned
\* the two of days 1 and 2 (a range that starts on day 1 and ends on day 2).
C7_Witness ==
    /\ last.op = "getEggSalesByDateRange"
    /\ last.err = "none"
    /\ {eggSales[i].sale_date : i \in DOMAIN eggSales} = {0, 1, 2}
    /\ Cardinality(DOMAIN eggSales) = 3
    /\ Len(last.val) = 2
    /\ {last.val[k].sale_date : k \in DOMAIN last.val} = {2, 4}

----------------------------------------------------------------------------
(* Inputs of the totals by date range and of the profit report *)

ReportCreateFeedConsumptionInputs ==
    [flock_id : Ids("chicken_flocks"), finished_feed_id : Ids("finished_feeds"),
     consumption_date : RowInstants, quantity_kg : {2000}]
\* The instants the queries are called with in SpecReport: midnight and noon of
\* day 1 for the start, noon of day 1 and midnight of day 2 for the end.
PeriodStarts == {2, 3}
PeriodEnds == {3, 4}
ProfitReportInputs == [period_start : PeriodStarts, period_end : PeriodEnds]

\* The state reached from Init by createRawFeedMaterial (2.50 per kg),
\* createFinishedFeed, createFeedComposition (40%, which sets the feed's cost to
\* 1.00) and createChickenFlock: what a feed consumption with a cost needs.
InitReport ==
    /\ rawFeedMaterials = (1 :> [name |-> "a", price_per_kg |-> 250])
    /\ finishedFeeds = (1 :> [name |-> "a", cost_per_kg |-> 100])
    /\ feedCompositions =
          (1 :> [finished_feed_id |-> 1, raw_material_id |-> 1, percentage |-> 4000])
    /\ chickenFlocks =
          (1 :> [strain |-> "s", entry_date |-> 0, initial_count |-> 100,
                 age_upon_entry_days |-> 0, current_count |-> 100])
    /\ feedConsumptions = NoRows
    /\ eggProductions = NoRows
    /\ eggSales = NoRows
    /\ otherExpenses = NoRows
    /\ seq = [t \in TableNames |->
                IF t \in {"raw_feed_materials", "finished_feeds", "feed_compositions",
                          "chicken_flocks"}
                THEN 1 ELSE 0]
    /\ last = [op |-> "start", err |-> "none", id |-> 0, val |-> Void]
    /\ calls = [c \in Clients |-> Idle]

NextReport ==
    \/ \E input \in ReportCreateFeedConsumptionInputs :
          createFeedConsumption(input) /\ RowsInserted' <= MaxReportRows
    \/ \E input \in QueryCreateEggSalesInputs :
          createEggSales(input) /\ RowsInserted' <= MaxReportRows
    \/ \E input \in QueryCreateOtherExpensesInputs :
          createOtherExpenses(input) /\ RowsInserted' <= MaxReportRows
    \/ \E startDate \in PeriodStarts, endDate \in PeriodEnds :
          Query("getTotalRevenueByDateRange", getTotalRevenueByDateRange(startDate, endDate))
    \/ \E startDate \in PeriodStarts, endDate \in PeriodEnds :
          Query("getTotalFeedCostByDateRange", getTotalFeedCostByDateRange(startDate, endDate))
    \/ \E startDate \in PeriodStarts, endDate \in PeriodEnds :
          Query("getTotalExpensesByDateRange", getTotalExpensesByDateRange(startDate, endDate))
    \/ \E startDate \in PeriodStarts, endDate \in PeriodEnds :
          Query("calculateTotalRevenue", calculateTotalRevenue(startDate, endDate))
    \/ \E startDate \in PeriodStarts, endDate \in PeriodEnds :
          Query("calculateTotalFeedCost", calculateTotalFeedCost(startDate, endDate))
    \/ \E startDate \in PeriodStarts, endDate \in PeriodEnds :
          Query("calculateTotalOtherExpenses", calculateTotalOtherExpenses(startDate, endDate))
    \/ \E input \in ProfitReportInputs :
          Query("generateProfitReport", generateProfitReport(input))

SpecReport == InitReport /\ [][NextReport]_vars

----------------------------------------------------------------------------
(* Totals by date range and the profit report: claims C8, C9 *)

\* The sum of column col over the rows of `table` whose day in column dateCol
\* lies between the days of the instants startDate and endDate, both included;
\* 0 when there is no such row.
TotalInRange(table, col, dateCol, startDate, endDate) ==
    LET rows == {i \in DOMAIN table : /\ startDate \div 2 <= table[i][dateCol]
                                      /\ table[i][dateCol] <= endDate \div 2}
    IN  SumOver([i \in rows |-> table[i][col]], rows)

\* C8: each total-by-date-range query returns the sum of its numeric column
\* over exactly the rows with start <= date <= end (start and end taken as
\* calendar days), and 0 when no row lies in the range, the empty table
\* included.
C8_TotalsSumRowsInRange ==
    \A startDate, endDate \in QueryInstants :
        LET revenue == TotalInRange(eggSales, "total_price", "sale_date", startDate, endDate)
            feedCost == TotalInRange(feedConsumptions, "cost", "consumption_date",
                                     startDate, endDate)
            expenses == TotalInRange(otherExpenses, "amount", "expense_date",
                                     startDate, endDate)
        IN  /\ getTotalRevenueByDateRange(startDate, endDate) = revenue
            /\ calculateTotalRevenue(startDate, endDate) = revenue
            /\ getTotalFeedCostByDateRange(startDate, endDate) = feedCost
            /\ calculateTotalFeedCost(startDate, endDate) = feedCost
            /\ getTotalExpensesByDateRange(startDate, endDate) = expenses
            /\ calculateTotalOtherExpenses(startDate, endDate) = expenses
            /\ eggSales = NoRows => getTotalRevenueByDateRange(startDate, endDate) = 0
            /\ feedConsumptions = NoRows => getTotalFeedCostByDateRange(startDate, endDate) = 0
            /\ otherExpenses = NoRows => getTotalExpensesByDateRange(startDate, endDate) = 0

\* Feed consumptions of 2.00 each are stored on days 0, 1 and 2, and
\* getTotalFeedCostByDateRange has returned 4.00: the two of a range of two
\* days.
C8_Witness ==
    /\ last.op = "getTotalFeedCostByDateRange"
    /\ last.err = "none"
    /\ last.val = 400
    /\ {feedConsumptions[i].consumption_date : i \in DOMAIN feedConsumptions} = {0, 1, 2}
    /\ \A i \in DOMAIN feedConsumptions : feedConsumptions[i].cost = 200

\* C9: generateProfitReport returns as total_revenue, total_feed_cost and
\* total_other_expenses the sums of total_price, cost and amount over the rows
\* dated within the inclusive period, total_profit = total_revenue -
\* total_feed_cost - total_other_expenses (negative when the costs exceed the
\* revenue, 0 when nothing is stored), and the period instants exactly as they
\* were passed.
C9_ProfitReportTotals ==
    \A input \in [period_start : QueryInstants, period_end : QueryInstants] :
        LET report == generateProfitReport(input)
        IN  /\ report.total_revenue =
                  TotalInRange(eggSales, "total_price", "sale_date",
                               input.period_start, input.period_end)
            /\ report.total_feed_cost =
                  TotalInRange(feedConsumptions, "cost", "consumption_date",
                               input.period_start, input.period_end)
            /\ report.total_other_expenses =
                  TotalInRange(otherExpenses, "amount", "expense_date",
                               input.period_start, input.period_end)
            /\ report.total_profit = report.total_revenue - report.total_feed_cost
                                        - report.total_other_expenses
            /\ report.total_revenue < report.total_feed_cost + report.total_other_expenses
                  => report.total_profit < 0
            /\ (eggSales = NoRows /\ feedConsumptions = NoRows /\ otherExpenses = NoRows)
                  => report.total_profit = 0
            /\ report.period_start = input.period_start
            /\ report.period_end = input.period_end

\* A report over a period that starts at noon of day 1: revenue 0.25, feed cost
\* 2.00 and other expenses 1.00 give a profit of -2.75, and the start is
\* reported as the noon it was passed as.
C9_Witness ==
    /\ last.op = "generateProfitReport"
    /\ last.err = "none"
    /\ last.val.total_revenue = 25
    /\ last.val.total_feed_cost = 200
    /\ last.val.total_other_expenses = 100
    /\ last.val.total_profit = -275
    /\ last.val.period_start = 3

----------------------------------------------------------------------------
(* Inputs of the feed-consumption handlers *)

\* quantity_kg in grams: 2 kg, 1.005 kg
ConsumptionQuantities == {2000, 1005}

CreateFeedConsumptionInputs ==
    [flock_id : {1}, finished_feed_id : Ids("finished_feeds"), consumption_date : {1},
     quantity_kg : ConsumptionQuantities]
UpdateFeedConsumptionInputs ==
    [id : Ids("feed_consumptions"), flock_id : {Undefined},
     finished_feed_id : Ids("finished_feeds") \cup {Undefined},
     consumption_date : {Undefined, 1}, quantity_kg : ConsumptionQuantities \cup {Undefined}]
\* The stored composition is set to 40% or 60% of the material at 2.50: the
\* feed costs 1.00 or 1.50.
ConsumptionUpdateFeedCompositionInputs == [id : {1}, percentage : {4000, 6000}]

\* Starts as SpecReport does; a second finished feed, without composition, can
\* be created, and the cost of the first one changed.
NextConsumption ==
    \/ \E input \in CreateFinishedFeedInputs :
          createFinishedFeed(input) /\ RowsInserted' <= MaxConsumptionRows
    \/ \E input \in ConsumptionUpdateFeedCompositionInputs : updateFeedComposition(input)
    \/ \E input \in CreateFeedConsumptionInputs :
          createFeedConsumption(input) /\ RowsInserted' <= MaxConsumptionRows
    \/ \E input \in UpdateFeedConsumptionInputs : updateFeedConsumption(input)
    \/ \E id \in Ids("feed_consumptions") : deleteFeedConsumption(id)

SpecConsumption == InitReport /\ [][NextConsumption]_vars

----------------------------------------------------------------------------
(* Feed consumption cost: claim C10 *)

\* `cost` cents is grams/1000 x cost_per_kg, rounded to the nearest cent.
IsConsumptionCost(cost, grams, cost_per_kg) ==
    /\ 2 * grams * cost_per_kg - 1000 <= 2000 * cost
    /\ 2000 * cost <= 2 * grams * cost_per_kg + 1000

\* C10: the cost of a feed consumption is quantity_kg x cost_per_kg of the
\* referenced finished feed as stored when the row is written, to the cent that
\* the cost column holds.  createFeedConsumption takes the quantity passed and
\* the feed's cost at that moment; updateFeedConsumption, when quantity_kg or
\* finished_feed_id is provided, recomputes from the resulting pair (the
\* quantity passed, else the stored one; the feed passed, else the stored one)
\* with the cost of the feed the row then references, and leaves the cost alone
\* when neither is provided.
C10_ConsumptionCostAtWriteTime ==
    [][/\ (last'.op = "createFeedConsumption" /\ last'.err = "none") =>
            \A input \in CreateFeedConsumptionInputs :
                createFeedConsumption(input) =>
                    /\ feedConsumptions'[last'.id].finished_feed_id = input.finished_feed_id
                    /\ IsConsumptionCost(feedConsumptions'[last'.id].cost, input.quantity_kg,
                                         finishedFeeds[input.finished_feed_id].cost_per_kg)
       /\ (last'.op = "updateFeedConsumption" /\ last'.err = "none") =>
            \A input \in UpdateFeedConsumptionInputs :
                (input.id = last'.id /\ updateFeedConsumption(input)) =>
                    LET old == feedConsumptions[input.id]
                        new == feedConsumptions'[input.id]
                    IN  /\ new.finished_feed_id = IF input.finished_feed_id # Undefined
                                                  THEN input.finished_feed_id
                                                  ELSE old.finished_feed_id
                        /\ IF input.quantity_kg = Undefined /\ input.finished_feed_id = Undefined
                           THEN new.cost = old.cost
                           ELSE IsConsumptionCost(new.cost,
                                    IF input.quantity_kg # Undefined
                                    THEN input.quantity_kg ELSE 10 * old.quantity_kg,
                                    finishedFeeds[new.finished_feed_id].cost_per_kg)
      ]_vars

\* A consumption of 1.01 kg (entered as 1.005 kg) was moved by
\* updateFeedConsumption to the feed that costs 1.50: its cost is 1.52, the
\* stored quantity priced with the new feed.
C10_Witness ==
    /\ last.op = "updateFeedConsumption"
    /\ last.err = "none"
    /\ last.id \in DOMAIN feedConsumptions
    /\ feedConsumptions[last.id].finished_feed_id = 1
    /\ feedConsumptions[last.id].quantity_kg = 101
    /\ feedConsumptions[last.id].cost = 152
    /\ finishedFeeds[1].cost_per_kg = 150

----------------------------------------------------------------------------
(* Inputs of the export *)

\* Bound: the number of rows ever inserted, over all tables together, in the
\* behaviours of SpecExport.
MaxExportRows == 2

\* The entity types the request schema lists, and one it does not.
ExportEntityTypes == SupportedEntityTypes \cup {"profit_report", "invalid_type"}
ExportFormats == {"pdf", "excel"}
ExportFilters ==
    {NoFilters,
     [NoFilters EXCEPT !.name = "a"],
     [NoFilters EXCEPT !.name = ""],
     [NoFilters EXCEPT !.min_price = 300],
     [NoFilters EXCEPT !.quality = "A", !.date_from = 1],
     [NoFilters EXCEPT !.date_to = 1],
     [NoFilters EXCEPT !.flock_id = 0, !.strain = "s"]}
ExportRequests ==
    [format : ExportFormats, entity_type : ExportEntityTypes, filters : ExportFilters]

ExportCreateRawFeedMaterialInputs == [name : {"a"}, price_per_kg : Prices]
\* Sales at noon of day 0 and at midnight of day 2.
ExportCreateEggSalesInputs ==
    [sale_date : {1, 4}, quality : {"A", "B"}, quantity : {1}, price_per_egg : {25000}]

NextExport ==
    \/ \E input \in ExportCreateRawFeedMaterialInputs :
          createRawFeedMaterial(input) /\ RowsInserted' <= MaxExportRows
    \/ \E input \in ExportCreateEggSalesInputs :
          createEggSales(input) /\ RowsInserted' <= MaxExportRows
    \/ \E input \in CreateChickenFlockInputs :
          createChickenFlock(input) /\ RowsInserted' <= MaxExportRows
    \/ \E request \in ExportRequests : exportData(request)

SpecExport == Init /\ [][NextExport]_vars

----------------------------------------------------------------------------
(* Export of an unknown entity type: claim C11 *)

\* C11: exportData with an entity_type outside the seven entities that
\* fetchDataByEntityType handles rejects with 'Unsupported entity type', in the
\* pdf and in the excel format alike; it resolves to no buffer and writes nothing.
C11_UnsupportedEntityTypeRejected ==
    [][last'.op = "exportData" =>
          \A request \in ExportRequests :
              (request.entity_type \notin SupportedEntityTypes /\ exportData(request))
                  => /\ last'.err = "Unsupported entity type"
                     /\ last'.val = Void
                     /\ UNCHANGED <<tables, seq>>]_vars

\* Rows are stored and an export was just rejected for its entity type.
C11_Witness ==
    /\ last.op = "exportData"
    /\ last.err = "Unsupported entity type"
    /\ DOMAIN rawFeedMaterials # {}
    /\ DOMAIN eggSales # {}

----------------------------------------------------------------------------
(* Composition writes, statement by statement.  No handler opens a            *)
(* transaction: each statement commits on its own, and between the statement *)
(* that writes the composition and the two of updateFinishedFeedCost (the    *)
(* join SELECT, the UPDATE of the feed) other calls can run or the call can  *)
(* stop.                                                                     *)

\* Client c can start a call: it has none in progress.  Clients are
\* interchangeable, so a new call is given to the first client that is free.
CanBegin(c) ==
    /\ calls[c].pc = "idle"
    /\ \A d \in Clients : d < c => calls[d].pc # "idle"

\* The checks of client c's call have passed and it goes on to its write.
Checked(c, op, id, val, finishedFeedId) ==
    /\ calls' = [calls EXCEPT ![c] = [pc |-> "write", op |-> op, id |-> id, val |-> val,
                                      feed |-> finishedFeedId, totalCost |-> 0]]
    /\ UNCHANGED <<tables, seq, last>>

\* createFeedComposition, the three SELECTs that check the input.
beginCreateFeedComposition(c, input) ==
    /\ CanBegin(c)
    /\ IF \/ input.finished_feed_id \notin DOMAIN finishedFeeds
          \/ input.raw_material_id \notin DOMAIN rawFeedMaterials
          \/ \E k \in DOMAIN feedCompositions :
                /\ feedCompositions[k].finished_feed_id = input.finished_feed_id
                /\ feedCompositions[k].raw_material_id = input.raw_material_id
       THEN createFeedComposition(input)
       ELSE Checked(c, "createFeedComposition", 0,
                    [finished_feed_id |-> input.finished_feed_id,
                     raw_material_id |-> input.raw_material_id,
                     percentage |-> input.percentage],
                    input.finished_feed_id)

\* updateFeedComposition, the SELECT of getFeedCompositionById.
beginUpdateFeedComposition(c, input) ==
    /\ CanBegin(c)
    /\ IF input.id \notin DOMAIN feedCompositions \/ input.percentage = Undefined
       THEN updateFeedComposition(input)
       ELSE Checked(c, "updateFeedComposition", input.id,
                    [percentage |-> input.percentage], 0)

\* deleteFeedComposition, the SELECT of getFeedCompositionById.
beginDeleteFeedComposition(c, id) ==
    /\ CanBegin(c)
    /\ IF id \notin DOMAIN feedCompositions
       THEN deleteFeedComposition(id)
       ELSE Checked(c, "deleteFeedComposition", id, Void,
                    feedCompositions[id].finished_feed_id)

\* The call of client c has written its composition and goes on to the SELECT
\* of updateFinishedFeedCost.
Written(c, id, val, finishedFeedId) ==
    /\ calls' = [calls EXCEPT ![c] = [@ EXCEPT !.pc = "read", !.id = id, !.val = val,
                                               !.feed = finishedFeedId]]
    /\ UNCHANGED <<rawFeedMaterials, finishedFeeds, chickenFlocks, feedConsumptions,
                   eggProductions, eggSales, otherExpenses, last>>

\* The call of client c fails in its write statement, which changes nothing.
WriteFails(c, err) ==
    /\ calls' = [calls EXCEPT ![c] = Idle]
    /\ last' = [op |-> calls[c].op, err |-> err, id |-> calls[c].id, val |-> Void]
    /\ UNCHANGED <<tables, seq>>

\* The INSERT, UPDATE or DELETE of the composition.  The INSERT is refused when
\* a row it references is gone; an UPDATE that finds its row gone returns no row
\* and result[0].finished_feed_id throws; a DELETE that finds its row gone
\* deletes nothing and the handler goes on.
writeComposition(c) ==
    LET call == calls[c]
    IN  /\ call.pc = "write"
        /\ CASE call.op = "createFeedComposition" ->
                  IF \/ call.val.finished_feed_id \notin DOMAIN finishedFeeds
                     \/ call.val.raw_material_id \notin DOMAIN rawFeedMaterials
                  THEN WriteFails(c, "foreign key violation")
                  ELSE LET id == NextId("feed_compositions")
                       IN  /\ CanInsert("feed_compositions")
                           /\ feedCompositions' = feedCompositions @@ (id :> call.val)
                           /\ seq' = [seq EXCEPT !["feed_compositions"] = id]
                           /\ Written(c, id, call.val, call.feed)
             [] call.op = "updateFeedComposition" ->
                  IF call.id \notin DOMAIN feedCompositions
                  THEN WriteFails(c, "TypeError")
                  ELSE LET row == [feedCompositions[call.id] EXCEPT
                                      !.percentage = call.val.percentage]
                       IN  /\ feedCompositions' = [feedCompositions EXCEPT ![call.id] = row]
                           /\ UNCHANGED seq
                           /\ Written(c, call.id, row, row.finished_feed_id)
             [] call.op = "deleteFeedComposition" ->
                  /\ feedCompositions' =
                        [i \in DOMAIN feedCompositions \ {call.id} |-> feedCompositions[i]]
                  /\ UNCHANGED seq
                  /\ Written(c, call.id, Void, call.feed)

\* updateFinishedFeedCost, first statement: the join is read and summed.
readCompositions(c) ==
    /\ calls[c].pc = "read"
    /\ calls' = [calls EXCEPT ![c] =
                    [@ EXCEPT !.pc = "store",
                              !.totalCost = WeightedCost(calls[c].feed, feedCompositions,
                                                         rawFeedMaterials)]]
    /\ UNCHANGED <<tables, seq, last>>

\* A variant of stopHandler in which the UPDATE of the feed that the call was
\* heading for is applied all the same, with the sum over what is stored now.
stopHandler_costStillWritten(c) ==
    /\ calls[c].pc \in {"write", "read", "store"}
    /\ finishedFeeds' \in updateFinishedFeedCost(calls[c].feed, feedCompositions, finishedFeeds)
    /\ calls' = [calls EXCEPT ![c] = Idle]
    /\ last' = [op |-> calls[c].op, err |-> "stopped", id |-> calls[c].id, val |-> Void]
    /\ UNCHANGED <<rawFeedMaterials, feedCompositions, chickenFlocks, feedConsumptions,
                   eggProductions, eggSales, otherExpenses, seq>>

\* The call stops between two statements (the process ends, or the connection
\* fails and the handler rethrows): what it has written stays, the rest of the
\* handler never runs.
stopHandler(c) ==
    /\ calls[c].pc \in {"write", "read", "store"}
    /\ calls' = [calls EXCEPT ![c] = Idle]
    /\ last' = [op |-> calls[c].op, err |-> "stopped", id |-> calls[c].id, val |-> Void]
    /\ UNCHANGED <<tables, seq>>

\* updateFinishedFeedCost, second statement: the sum is written to the feed (to
\* no row when the feed is gone) and the handler resolves.
storeFeedCost(c) ==
    /\ calls[c].pc = "store"
    /\ \E cost \in FloatRounded(calls[c].totalCost, CentInWeightedCost) :
          finishedFeeds' = [f \in DOMAIN finishedFeeds |->
                               IF f = calls[c].feed
                               THEN [finishedFeeds[f] EXCEPT !.cost_per_kg = cost]
                               ELSE finishedFeeds[f]]
    /\ calls' = [calls EXCEPT ![c] = Idle]
    /\ last' = [op |-> calls[c].op, err |-> "none", id |-> calls[c].id, val |-> calls[c].val]
    /\ UNCHANGED <<rawFeedMaterials, feedCompositions, chickenFlocks, feedConsumptions,
                   eggProductions, eggSales, otherExpenses, seq>>

\* Bound: the number of rows ever inserted, over all tables together, in the
\* behaviours of SpecSteps, the four rows it starts with included.
MaxStepRows == 5

StepCreateRawFeedMaterialInputs == [name : {"b"}, price_per_kg : {320}]
StepCreateFeedCompositionInputs ==
    [finished_feed_id : Ids("finished_feeds"), raw_material_id : Ids("raw_feed_materials"),
     percentage : {6000}]
StepUpdateFeedCompositionInputs ==
    [id : Ids("feed_compositions"), percentage : {Undefined, 4000, 6000}]

NextSteps ==
    \/ \E input \in StepCreateRawFeedMaterialInputs :
          createRawFeedMaterial(input) /\ RowsInserted' <= MaxStepRows
    \/ \E c \in Clients : \E input \in StepCreateFeedCompositionInputs :
          beginCreateFeedComposition(c, input)
    \/ \E c \in Clients : \E input \in StepUpdateFeedCompositionInputs :
          beginUpdateFeedComposition(c, input)
    \/ \E c \in Clients : \E id \in Ids("feed_compositions") :
          beginDeleteFeedComposition(c, id)
    \/ \E c \in Clients : writeComposition(c) /\ RowsInserted' <= MaxStepRows
    \/ \E c \in Clients : readCompositions(c)
    \/ \E c \in Clients : storeFeedCost(c)
    \/ \E c \in Clients : stopHandler(c)

SpecSteps == InitReport /\ [][NextSteps]_vars

----------------------------------------------------------------------------
(* A call that stops between its two writes: claim C12 *)

\* The composition that the call in progress `call` has written is what
\* `comps` holds under its id (no row for a delete).
CompositionChangeStored(call, comps) ==
    IF call.op = "deleteFeedComposition"
    THEN call.id \notin DOMAIN comps
    ELSE call.id \in DOMAIN comps /\ comps[call.id] = call.val

\* C12: the statement that inserts, updates or deletes a composition changes
\* feed_compositions and leaves every finished feed's cost_per_kg as it was; if
\* the call stops after it, before the recomputed cost is written, nothing is
\* rolled back: the composition change stays stored, the feed keeps the
\* cost_per_kg it had, and the call writes nothing more.
C12_StoppedWriteLeavesStaleCost ==
    [][\A c \in Clients :
          /\ (calls[c].pc = "write" /\ calls'[c].pc = "read")
                => /\ finishedFeeds' = finishedFeeds
                   /\ CompositionChangeStored(calls'[c], feedCompositions')
          /\ (calls[c].pc \in {"read", "store"} /\ calls'[c].pc = "idle"
              /\ last'.err = "stopped")
                => /\ UNCHANGED <<tables, seq>>
                   /\ \A d \in Clients \ {c} : calls'[d] = calls[d]]_vars

\* A createFeedComposition for feed 1 stopped after its insert: the composition
\* is stored, no call is in progress, and feed 1 still costs 1.00, which is not
\* the weighted sum of its compositions.
C12_Witness ==
    /\ last.op = "createFeedComposition"
    /\ last.err = "stopped"
    /\ last.id \in DOMAIN feedCompositions
    /\ feedCompositions[last.id].finished_feed_id = 1
    /\ \A c \in Clients : calls[c] = Idle
    /\ finishedFeeds[1].cost_per_kg = 100
    /\ WeightedCost(1, feedCompositions, rawFeedMaterials) > 100 * CentInWeightedCost

----------------------------------------------------------------------------
(* Inputs of the flock handlers *)

\* Bound: the number of flocks ever inserted in the behaviours of SpecFlock.
MaxFlockRows == 2

FlockCreateChickenFlockInputs ==
    [strain : Strains, entry_date : {1}, initial_count : {100, 50}, age_upon_entry_days : {0}]
FlockUpdateChickenFlockInputs ==
    [id : Ids("chicken_flocks"), strain : {UndefinedStr}, entry_date : {Undefined},
     initial_count : {Undefined, 200}, age_upon_entry_days : {Undefined},
     current_count : {Undefined, 95}]

NextFlock ==
    \/ \E input \in FlockCreateChickenFlockInputs :
          createChickenFlock(input) /\ RowsInserted' <= MaxFlockRows
    \/ \E input \in FlockUpdateChickenFlockInputs : updateChickenFlock(input)
    \/ \E id \in Ids("chicken_flocks") : deleteChickenFlock(id)

SpecFlock == Init /\ [][NextFlock]_vars

----------------------------------------------------------------------------
(* Flock counts: claim C15 *)

\* The update input provides current_count and no other field.
OnlyCurrentCount(input) ==
    /\ input.current_count # Undefined
    /\ input.strain = UndefinedStr
    /\ input.entry_date = Undefined
    /\ input.initial_count = Undefined
    /\ input.age_upon_entry_days = Undefined

\* C15: createChickenFlock stores current_count equal to the initial_count it
\* is given, for every input; updateChickenFlock of a stored flock with
\* current_count as its only field stores that current_count and leaves
\* initial_count, and every other field of the flock, as it was.
C15_CurrentCountStartsAtInitialCount ==
    [][last'.op \in {"createChickenFlock", "updateChickenFlock"} =>
          /\ \A input \in FlockCreateChickenFlockInputs :
                createChickenFlock(input)
                    => /\ last'.err = "none"
                       /\ chickenFlocks'[last'.id].initial_count = input.initial_count
                       /\ chickenFlocks'[last'.id].current_count = input.initial_count
          /\ \A input \in FlockUpdateChickenFlockInputs :
                (/\ input.id \in DOMAIN chickenFlocks
                 /\ OnlyCurrentCount(input)
                 /\ updateChickenFlock(input))
                    => /\ last'.err = "none"
                       /\ chickenFlocks'[input.id] =
                             [chickenFlocks[input.id] EXCEPT
                                 !.current_count = input.current_count]]_vars

\* A flock created with 100 birds has been updated with current_count 95 alone:
\* it holds initial_count 100 and current_count 95.
C15_Witness ==
    /\ last.op = "updateChickenFlock"
    /\ last.err = "none"
    /\ last.id \in DOMAIN chickenFlocks
    /\ chickenFlocks[last.id].initial_count = 100
    /\ chickenFlocks[last.id].current_count = 95

----------------------------------------------------------------------------
(* Inputs of the updates: each update input provides some fields, with values *)
(* that differ from the stored ones, and leaves the others out.              *)

\* Bound: the number of rows ever inserted, over all tables together, in the
\* behaviours of SpecUpdate, the four rows it starts with included.
MaxUpdateRows == 5

UpdCreateFeedConsumptionInputs ==
    [flock_id : {1}, finished_feed_id : {1}, consumption_date : {1}, quantity_kg : {2000}]
UpdCreateEggProductionInputs ==
    [flock_id : {1}, production_date : {1}, quality : {"B"}, quantity : {30}]
UpdCreateEggSalesInputs ==
    [sale_date : {1}, quality : {"A"}, quantity : {1}, price_per_egg : {25000}]
UpdCreateOtherExpensesInputs ==
    [expense_date : {1}, expense_type : {"labor"}, description : {"d"}, amount : {1000}]

UpdUpdateRawFeedMaterialInputs ==
    [id : Ids("raw_feed_materials"), name : {UndefinedStr}, price_per_kg : {Undefined, 320}]
UpdUpdateFinishedFeedInputs == [id : Ids("finished_feeds"), name : {UndefinedStr, "b"}]
UpdUpdateFeedCompositionInputs ==
    [id : Ids("feed_compositions"), percentage : {Undefined, 6000}]
UpdUpdateChickenFlockInputs ==
    [id : Ids("chicken_flocks"), strain : {UndefinedStr}, entry_date : {Undefined},
     initial_count : {Undefined}, age_upon_entry_days : {Undefined},
     current_count : {Undefined, 95}]
UpdUpdateFeedConsumptionInputs ==
    [id : Ids("feed_consumptions"), flock_id : {Undefined}, finished_feed_id : {Undefined, 1},
     consumption_date : {Undefined}, quantity_kg : {Undefined, 1005}]
UpdUpdateEggProductionInputs ==
    [id : Ids("egg_productions"), flock_id : {Undefined}, production_date : {Undefined},
     quality : {UndefinedStr, "A"}, quantity : {Undefined, 31}]
UpdUpdateEggSalesInputs ==
    [id : Ids("egg_sales"), sale_date : {Undefined}, quality : {UndefinedStr},
     quantity : {Undefined, 2}, price_per_egg : {Undefined, 12500}]
UpdUpdateOtherExpensesInputs ==
    [id : Ids("other_expenses"), expense_date : {Undefined}, expense_type : {UndefinedStr, "other"},
     description : {UndefinedStr}, amount : {Undefined, 2005}]

NextUpdate ==
    \/ \E input \in UpdCreateFeedConsumptionInputs :
          createFeedConsumption(input) /\ RowsInserted' <= MaxUpdateRows
    \/ \E input \in UpdCreateEggProductionInputs :
          createEggProduction(input) /\ RowsInserted' <= MaxUpdateRows
    \/ \E input \in UpdCreateEggSalesInputs :
          createEggSales(input) /\ RowsInserted' <= MaxUpdateRows
    \/ \E input \in UpdCreateOtherExpensesInputs :
          createOtherExpenses(input) /\ RowsInserted' <= MaxUpdateRows
    \/ \E input \in UpdUpdateRawFeedMaterialInputs : updateRawFeedMaterial(input)
    \/ \E input \in UpdUpdateFinishedFeedInputs : updateFinishedFeed(input)
    \/ \E input \in UpdUpdateFeedCompositionInputs : updateFeedComposition(input)
    \/ \E input \in UpdUpdateChickenFlockInputs : updateChickenFlock(input)
    \/ \E input \in UpdUpdateFeedConsumptionInputs : updateFeedConsumption(input)
    \/ \E input \in UpdUpdateEggProductionInputs : updateEggProduction(input)
    \/ \E input \in UpdUpdateEggSalesInputs : updateEggSales(input)
    \/ \E input \in UpdUpdateOtherExpensesInputs : updateOtherExpenses(input)

SpecUpdate == InitReport /\ [][NextUpdate]_vars

----------------------------------------------------------------------------
(* What an update leaves alone: claim C16 *)

StringColumns == {"name", "strain", "quality", "expense_type", "description"}

\* The update input does not provide column col.
Absent(input, col) ==
    \/ col \notin DOMAIN input
    \/ IF col \in StringColumns THEN input[col] = UndefinedStr ELSE input[col] = Undefined

\* The columns an update recomputes from the fields its input provides.
DerivedColumns(op, input) ==
    CASE op = "updateEggSales" ->
            IF input.quantity # Undefined \/ input.price_per_egg # Undefined
            THEN {"total_price"} ELSE {}
      [] op = "updateFeedConsumption" ->
            IF input.quantity_kg # Undefined \/ input.finished_feed_id # Undefined
            THEN {"cost"} ELSE {}
      [] OTHER -> {}

\* In table t, the row `id` keeps every column that the input leaves out and
\* that is not derived, and every other row stays as it is.
RowFrame(op, input, t) ==
    /\ DOMAIN Table'[t] = DOMAIN Table[t]
    /\ \A j \in DOMAIN Table[t] \ {input.id} : Table'[t][j] = Table[t][j]
    /\ \A col \in DOMAIN Table[t][input.id] :
          (Absent(input, col) /\ col \notin DerivedColumns(op, input))
              => Table'[t][input.id][col] = Table[t][input.id][col]

\* Every successful step of the update handler `op` on table t keeps the row
\* frame and leaves the tables in `others` unchanged.
UpdateFrame(op, Update(_), inputs, t, others) ==
    (last'.op = op /\ last'.err = "none") =>
        \A input \in inputs :
            (input.id = last'.id /\ Update(input))
                => /\ RowFrame(op, input, t)
                   /\ \A u \in others : Table'[u] = Table[u]

\* The row frame of all eight update handlers; the tables in
\* `besidesComposition` are those an updateFeedComposition leaves unchanged
\* besides feed_compositions.
UpdatesKeepFrame(besidesComposition) ==
    /\ UpdateFrame("updateRawFeedMaterial", updateRawFeedMaterial,
                   UpdUpdateRawFeedMaterialInputs, "raw_feed_materials",
                   TableNames \ {"raw_feed_materials"})
    /\ UpdateFrame("updateFinishedFeed", updateFinishedFeed,
                   UpdUpdateFinishedFeedInputs, "finished_feeds",
                   TableNames \ {"finished_feeds"})
    /\ UpdateFrame("updateFeedComposition", updateFeedComposition,
                   UpdUpdateFeedCompositionInputs, "feed_compositions", besidesComposition)
    /\ UpdateFrame("updateChickenFlock", updateChickenFlock,
                   UpdUpdateChickenFlockInputs, "chicken_flocks",
                   TableNames \ {"chicken_flocks"})
    /\ UpdateFrame("updateFeedConsumption", updateFeedConsumption,
                   UpdUpdateFeedConsumptionInputs, "feed_consumptions",
                   TableNames \ {"feed_consumptions"})
    /\ UpdateFrame("updateEggProduction", updateEggProduction,
                   UpdUpdateEggProductionInputs, "egg_productions",
                   TableNames \ {"egg_productions"})
    /\ UpdateFrame("updateEggSales", updateEggSales,
                   UpdUpdateEggSalesInputs, "egg_sales", TableNames \ {"egg_sales"})
    /\ UpdateFrame("updateOtherExpenses", updateOtherExpenses,
                   UpdUpdateOtherExpensesInputs, "other_expenses",
                   TableNames \ {"other_expenses"})

\* C16 as stated: a successful update keeps every column of its row that the
\* input leaves out (total_price and cost excepted when a factor is provided),
\* and changes no other row of any table.
C16_UpdateChangesOnlyItsRecord ==
    [][UpdatesKeepFrame(TableNames \ {"feed_compositions"})]_vars

\* C16, amended: the same, except that updateFeedComposition also rewrites the
\* cost_per_kg of the finished feed its composition belongs to; it changes no
\* other column of that feed and no other finished feed.
C16_UpdateChangesOnlyItsRecordAndFeedCost ==
    [][/\ UpdatesKeepFrame(TableNames \ {"feed_compositions", "finished_feeds"})
       /\ (last'.op = "updateFeedComposition" /\ last'.err = "none") =>
             /\ DOMAIN finishedFeeds' = DOMAIN finishedFeeds
             /\ \A f \in DOMAIN finishedFeeds :
                   IF f = feedCompositions[last'.id].finished_feed_id
                   THEN finishedFeeds'[f].name = finishedFeeds[f].name
                   ELSE finishedFeeds'[f] = finishedFeeds[f]]_vars

\* An update that provided only quantity has changed an egg production of
\* quality B: the quantity is the new one, the quality still B.
C16_Witness ==
    /\ last.op = "updateEggProduction"
    /\ last.err = "none"
    /\ last.id \in DOMAIN eggProductions
    /\ eggProductions[last.id].quantity = 31
    /\ eggProductions[last.id].quality = "B"

----------------------------------------------------------------------------
(* Reads of one record by id *)

\* What a read by id resolves to when no row has the id.
Null == [null |-> TRUE]

getRawFeedMaterialById(id) ==
    Query("getRawFeedMaterialById",
          IF id \notin DOMAIN rawFeedMaterials THEN Null
          ELSE [id |-> id, name |-> rawFeedMaterials[id].name,
                price_per_kg |-> rawFeedMaterials[id].price_per_kg])

getFinishedFeedById(id) ==
    Query("getFinishedFeedById",
          IF id \notin DOMAIN finishedFeeds THEN Null
          ELSE [id |-> id, name |-> finishedFeeds[id].name,
                cost_per_kg |-> finishedFeeds[id].cost_per_kg])

getFeedCompositionById(id) ==
    Query("getFeedCompositionById",
          IF id \notin DOMAIN feedCompositions THEN Null
          ELSE [id |-> id, finished_feed_id |-> feedCompositions[id].finished_feed_id,
                raw_material_id |-> feedCompositions[id].raw_material_id,
                percentage |-> feedCompositions[id].percentage])

getChickenFlockById(id) ==
    Query("getChickenFlockById",
          IF id \notin DOMAIN chickenFlocks THEN Null
          ELSE LET flock == chickenFlocks[id]
               IN  [id |-> id, strain |-> flock.strain,
                    entry_date |-> dateFromDB(flock.entry_date),
                    initial_count |-> flock.initial_count,
                    age_upon_entry_days |-> flock.age_upon_entry_days,
                    current_count |-> flock.current_count])

\* A variant of getFeedConsumptionById that fails when no row has the id.
getFeedConsumptionById_throws(id) ==
    IF id \notin DOMAIN feedConsumptions
    THEN Throw("getFeedConsumptionById", 0, "Feed consumption not found")
    ELSE LET consumption == feedConsumptions[id]
         IN  Query("getFeedConsumptionById",
                   [id |-> id, flock_id |-> consumption.flock_id,
                    finished_feed_id |-> consumption.finished_feed_id,
                    consumption_date |-> dateFromDB(consumption.consumption_date),
                    quantity_kg |-> consumption.quantity_kg, cost |-> consumption.cost])

getFeedConsumptionById(id) ==
    Query("getFeedConsumptionById",
          IF id \notin DOMAIN feedConsumptions THEN Null
          ELSE LET consumption == feedConsumptions[id]
               IN  [id |-> id, flock_id |-> consumption.flock_id,
                    finished_feed_id |-> consumption.finished_feed_id,
                    consumption_date |-> dateFromDB(consumption.consumption_date),
                    quantity_kg |-> consumption.quantity_kg, cost |-> consumption.cost])

getEggProductionById(id) ==
    Query("getEggProductionById",
          IF id \notin DOMAIN eggProductions THEN Null
          ELSE convertEggProduction(id, eggProductions[id]))

getEggSalesById(id) ==
    Query("getEggSalesById",
          IF id \notin DOMAIN eggSales THEN Null
          ELSE convertEggSaleResult(id, eggSales[id]))

getOtherExpensesById(id) ==
    Query("getOtherExpensesById",
          IF id \notin DOMAIN otherExpenses THEN Null
          ELSE convertOtherExpense(id, otherExpenses[id]))

----------------------------------------------------------------------------
(* Inputs of the reads by id *)

\* Bound: the number of rows ever inserted, over all tables together, in the
\* behaviours of SpecGet.
MaxGetRows == 6

GetCreateFeedConsumptionInputs ==
    [flock_id : {1}, finished_feed_id : {1}, consumption_date : {3}, quantity_kg : {2000}]
GetCreateEggProductionInputs ==
    [flock_id : {1}, production_date : {3}, quality : {"B"}, quantity : {30}]
GetCreateEggSalesInputs ==
    [sale_date : {3}, quality : {"A"}, quantity : {1}, price_per_egg : {25000}]
GetCreateOtherExpensesInputs ==
    [expense_date : {3}, expense_type : {"labor"}, description : {"d"}, amount : {1000}]

NextGet ==
    \/ \E input \in GetCreateFeedConsumptionInputs :
          createFeedConsumption(input) /\ RowsInserted' <= MaxGetRows
    \/ \E input \in GetCreateEggProductionInputs :
          createEggProduction(input) /\ RowsInserted' <= MaxGetRows
    \/ \E input \in GetCreateEggSalesInputs :
          createEggSales(input) /\ RowsInserted' <= MaxGetRows
    \/ \E input \in GetCreateOtherExpensesInputs :
          createOtherExpenses(input) /\ RowsInserted' <= MaxGetRows
    \/ \E id \in Ids("raw_feed_materials") : deleteRawFeedMaterial(id)
    \/ \E id \in Ids("finished_feeds") : deleteFinishedFeed(id)
    \/ \E id \in Ids("feed_compositions") : deleteFeedComposition(id)
    \/ \E id \in Ids("chicken_flocks") : deleteChickenFlock(id)
    \/ \E id \in Ids("feed_consumptions") : deleteFeedConsumption(id)
    \/ \E id \in Ids("egg_productions") : deleteEggProduction(id)
    \/ \E id \in Ids("egg_sales") : deleteEggSales(id)
    \/ \E id \in Ids("other_expenses") : deleteOtherExpenses(id)
    \/ \E id \in Ids("raw_feed_materials") : getRawFeedMaterialById(id)
    \/ \E id \in Ids("finished_feeds") : getFinishedFeedById(id)
    \/ \E id \in Ids("feed_compositions") : getFeedCompositionById(id)
    \/ \E id \in Ids("chicken_flocks") : getChickenFlockById(id)
    \/ \E id \in Ids("feed_consumptions") : getFeedConsumptionById(id)
    \/ \E id \in Ids("egg_productions") : getEggProductionById(id)
    \/ \E id \in Ids("egg_sales") : getEggSalesById(id)
    \/ \E id \in Ids("other_expenses") : getOtherExpensesById(id)

SpecGet == InitReport /\ [][NextGet]_vars

----------------------------------------------------------------------------
(* Reads by id: claim C17 *)

DateColumns ==
    {"entry_date", "consumption_date", "production_date", "sale_date", "expense_date"}

\* The value val is the row of table t with the given id: it carries the id,
\* every column of the row, and in a date column an instant of the stored day.
IsStoredRecord(val, t, id) ==
    /\ val # Null
    /\ val.id = id
    /\ \A col \in DOMAIN Table[t][id] :
          IF col \in DateColumns
          THEN formatDateForDB(val[col]) = Table[t][id][col]
          ELSE val[col] = Table[t][id][col]

\* Every step of the read `op` of table t resolves, without an error, to null
\* for an id of no row and to the stored record otherwise, and changes nothing.
ReadByIdContract(op, Get(_), t) ==
    last'.op = op =>
        /\ last'.err = "none"
        /\ UNCHANGED <<tables, seq>>
        /\ \A id \in Ids(t) :
              Get(id) => IF id \in DOMAIN Table[t]
                         THEN IsStoredRecord(last'.val, t, id)
                         ELSE last'.val = Null

\* Right after a successful delete of row id from table t, the read of that id
\* resolves to null.
ReadAfterDelete(op, Get(_), t) ==
    (/\ last.op \in DOMAIN DeleteTable
     /\ DeleteTable[last.op] = t
     /\ last.err = "none"
     /\ last'.op = op
     /\ Get(last.id)) => last'.val = Null

ReadsById(op, Get(_), t) == ReadByIdContract(op, Get, t) /\ ReadAfterDelete(op, Get, t)

\* C17: for every entity, getById resolves to null (and does not fail) for an
\* id of no stored record and to the stored record otherwise; right after a
\* successful delete(id), getById(id) resolves to null.
C17_GetByIdNullForMissingRecord ==
    [][/\ ReadsById("getRawFeedMaterialById", getRawFeedMaterialById, "raw_feed_materials")
       /\ ReadsById("getFinishedFeedById", getFinishedFeedById, "finished_feeds")
       /\ ReadsById("getFeedCompositionById", getFeedCompositionById, "feed_compositions")
       /\ ReadsById("getChickenFlockById", getChickenFlockById, "chicken_flocks")
       /\ ReadsById("getFeedConsumptionById", getFeedConsumptionById, "feed_consumptions")
       /\ ReadsById("getEggProductionById", getEggProductionById, "egg_productions")
       /\ ReadsById("getEggSalesById", getEggSalesById, "egg_sales")
       /\ ReadsById("getOtherExpensesById", getOtherExpensesById, "other_expenses")]_vars

\* A feed consumption was created and deleted, and the read of its id has
\* resolved to null.
C17_Witness ==
    /\ last.op = "getFeedConsumptionById"
    /\ last.err = "none"
    /\ last.val = Null
    /\ seq["feed_consumptions"] = 1
    /\ 1 \notin DOMAIN feedConsumptions

----------------------------------------------------------------------------
(* Inputs of the finished-feed handlers, with renames *)

\* Bound: the number of rows ever inserted, over all tables together, in the
\* behaviours of SpecCost.
MaxCostRows == 6

CostCreateRawFeedMaterialInputs == [name : {"b"}, price_per_kg : {320}]
CostUpdateRawFeedMaterialInputs ==
    [id : Ids("raw_feed_materials"), name : {UndefinedStr}, price_per_kg : {Undefined, 320}]
CostCreateFinishedFeedInputs == [name : {"a"}]
CostUpdateFinishedFeedInputs == [id : Ids("finished_feeds"), name : {UndefinedStr, "b"}]
CostCreateFeedCompositionInputs ==
    [finished_feed_id : Ids("finished_feeds"), raw_material_id : Ids("raw_feed_materials"),
     percentage : {6020}]
CostUpdateFeedCompositionInputs == [id : Ids("feed_compositions"), percentage : {Undefined, 6000}]

NextCost ==
    \/ \E input \in CostCreateRawFeedMaterialInputs :
          createRawFeedMaterial(input) /\ RowsInserted' <= MaxCostRows
    \/ \E input \in CostUpdateRawFeedMaterialInputs : updateRawFeedMaterial(input)
    \/ \E input \in CostCreateFinishedFeedInputs :
          createFinishedFeed(input) /\ RowsInserted' <= MaxCostRows
    \/ \E input \in CostUpdateFinishedFeedInputs : updateFinishedFeed(input)
    \/ \E id \in Ids("finished_feeds") : calculateFeedCost(id)
    \/ \E id \in Ids("finished_feeds") : getFinishedFeedById(id)
    \/ \E input \in CostCreateFeedCompositionInputs :
          createFeedComposition(input) /\ RowsInserted' <= MaxCostRows
    \/ \E input \in CostUpdateFeedCompositionInputs : updateFeedComposition(input)
    \/ \E id \in Ids("feed_compositions") : deleteFeedComposition(id)

SpecCost == InitReport /\ [][NextCost]_vars

----------------------------------------------------------------------------
(* One composition per finished feed and raw material: claim C13 *)

\* A composition of the pair (finishedFeedId, rawMaterialId) is stored.
PairStored(finishedFeedId, rawMaterialId) ==
    \E k \in DOMAIN feedCompositions :
        /\ feedCompositions[k].finished_feed_id = finishedFeedId
        /\ feedCompositions[k].raw_material_id = rawMaterialId

NoDuplicatePairs ==
    \A j, k \in DOMAIN feedCompositions :
        (/\ feedCompositions[j].finished_feed_id = feedCompositions[k].finished_feed_id
         /\ feedCompositions[j].raw_material_id = feedCompositions[k].raw_material_id)
            => j = k

\* C13: createFeedComposition for a (finished feed, raw material) pair that
\* already has a stored composition rejects with 'Composition already exists'
\* and changes nothing (the stored composition and the feed's cost_per_kg stay);
\* and whatever handlers have run, one after the other, no two stored
\* compositions have the same pair.
C13_DuplicateCompositionRejected ==
    /\ []NoDuplicatePairs
    /\ [][last'.op = "createFeedComposition" =>
             \A input \in CostCreateFeedCompositionInputs :
                 (/\ PairStored(input.finished_feed_id, input.raw_material_id)
                  /\ createFeedComposition(input))
                     => /\ last'.err = "Composition already exists"
                        /\ UNCHANGED <<tables, seq>>]_vars

\* A second createFeedComposition for the pair of a stored composition was
\* just rejected; the feed has its cost from the first.
C13_Witness ==
    /\ last.op = "createFeedComposition"
    /\ last.err = "Composition already exists"
    /\ \E k \in DOMAIN feedCompositions :
          /\ feedCompositions[k].finished_feed_id = last.id
          /\ finishedFeeds[last.id].cost_per_kg > 0

----------------------------------------------------------------------------
(* Percentages that add up to more than 100: claim C14 *)

\* cost is the plain weighted sum over the feed's compositions in comps, to the
\* cent: nothing is divided by the total of the percentages.
IsPlainWeightedSum(cost, finishedFeedId, comps, mats) ==
    cost \in FloatRounded(WeightedCost(finishedFeedId, comps, mats), CentInWeightedCost)

----------------------------------------------------------------------------
(* Where cost_per_kg comes from: claim C18 *)

CostWriters == CompositionWrites \cup {"calculateFeedCost"}

----------------------------------------------------------------------------
(* What calculateFeedCost returns and what it stores: claim C19 *)

\* The step is a getFinishedFeedById of the existing feed whose cost the
\* previous step, a calculateFeedCost, has returned.
ReadsBackCalculatedCost ==
    /\ last.op = "calculateFeedCost"
    /\ last.err = "none"
    /\ last.id \in DOMAIN finishedFeeds
    /\ last'.op = "getFinishedFeedById"
    /\ getFinishedFeedById(last.id)

\* calculateFeedCost of an existing feed returns the weighted sum over the
\* feed's compositions.
ReturnsWeightedSum ==
    (last'.op = "calculateFeedCost" /\ last'.err = "none" /\ last'.id \in DOMAIN finishedFeeds)
        => last'.val.totalCost
              = WeightedCost(last'.id, feedCompositions, rawFeedMaterials)

C19_ReadEqualsReturnedCostRounded ==
    [][/\ ReturnsWeightedSum
       /\ ReadsBackCalculatedCost
             => last'.val.cost_per_kg = RoundHalfUp(last.val.totalCost, CentInWeightedCost)]_vars

\* calculateFeedCost has returned 1.505 for a feed made of 60.20% of a material
\* at 2.50, and the feed now holds 1.51.
C19_ReturnedAndStoredDiffer ==
    /\ last.op = "calculateFeedCost"
    /\ last.err = "none"
    /\ last.val.totalCost = 1505000
    /\ last.id \in DOMAIN finishedFeeds
    /\ finishedFeeds[last.id].cost_per_kg = 151

----------------------------------------------------------------------------
(* Inputs of the updates that change a reference *)

\* Bound: the number of rows ever inserted, over all tables together, in the
\* behaviours of SpecRefs.
MaxRefsRows == 7

RefsCreateFeedConsumptionInputs ==
    [flock_id : {1}, finished_feed_id : {1}, consumption_date : {1}, quantity_kg : {2000}]
RefsCreateEggProductionInputs ==
    [flock_id : {1}, production_date : {1}, quality : {"B"}, quantity : {30}]
RefsUpdateFeedConsumptionInputs ==
    [id : Ids("feed_consumptions"), flock_id : Ids("chicken_flocks") \cup {Undefined},
     finished_feed_id : Ids("finished_feeds") \cup {Undefined},
     consumption_date : {Undefined}, quantity_kg : {Undefined, 1005}]
RefsUpdateEggProductionInputs ==
    [id : Ids("egg_productions"), flock_id : Ids("chicken_flocks") \cup {Undefined},
     production_date : {Undefined}, quality : {UndefinedStr}, quantity : {Undefined, 31}]

NextRefs ==
    \/ \E input \in RefsCreateFeedConsumptionInputs :
          createFeedConsumption(input) /\ RowsInserted' <= MaxRefsRows
    \/ \E input \in RefsCreateEggProductionInputs :
          createEggProduction(input) /\ RowsInserted' <= MaxRefsRows
    \/ \E input \in RefsUpdateFeedConsumptionInputs : updateFeedConsumption(input)
    \/ \E input \in RefsUpdateEggProductionInputs : updateEggProduction(input)

SpecRefs == InitReport /\ [][NextRefs]_vars

----------------------------------------------------------------------------
(* Updates that name a missing record: claim C20 *)

\* The step failed with error err about id and changed no table.
FailedNaming(err, id) ==
    /\ last'.err = err
    /\ last'.id = id
    /\ UNCHANGED <<tables, seq>>

\* The references given in the input of an update that resolve to no row, each
\* with the error that names it.
MissingReferences(input, flockError) ==
    (IF input.flock_id # Undefined /\ input.flock_id \notin DOMAIN chickenFlocks
     THEN {[err |-> flockError, id |-> input.flock_id]} ELSE {})
    \cup
    (IF /\ "finished_feed_id" \in DOMAIN input
        /\ input.finished_feed_id # Undefined
        /\ input.finished_feed_id \notin DOMAIN finishedFeeds
     THEN {[err |-> "Finished feed not found", id |-> input.finished_feed_id]} ELSE {})

\* Every step of the update `op` on `table`: for an id of no record it fails
\* with the record's not-found error, whatever references the input carries;
\* for a stored record and a reference to no row it fails with an error naming
\* a missing reference; in both cases no table changes.
RejectsMissing(op, Update(_), inputs, table, notFound, flockError) ==
    last'.op = op =>
        \A input \in inputs :
            Update(input) =>
                IF input.id \notin DOMAIN table
                THEN FailedNaming(notFound, input.id)
                ELSE MissingReferences(input, flockError) # {} =>
                        \E missing \in MissingReferences(input, flockError) :
                            FailedNaming(missing.err, missing.id)

\* C20: updateFeedConsumption and updateEggProduction on a stored record with
\* a flock_id or finished_feed_id of no row fail with an error naming the
\* missing record and leave every table as it was; when the record id itself
\* is of no row, they fail with the record's not-found error, whatever the
\* referenced ids are.
C20_UpdateWithMissingReferenceRejected ==
    [][/\ RejectsMissing("updateFeedConsumption", updateFeedConsumption,
                         RefsUpdateFeedConsumptionInputs, feedConsumptions,
                         "Feed consumption not found", "Flock not found")
       /\ RejectsMissing("updateEggProduction", updateEggProduction,
                         RefsUpdateEggProductionInputs, eggProductions,
                         "Egg production record does not exist",
                         "Flock does not exist")]_vars

\* updateFeedConsumption of the stored consumption 1 was given finished feed 2,
\* which does not exist, and failed naming it; consumption 1 still references
\* feed 1.
C20_Witness ==
    /\ last.op = "updateFeedConsumption"
    /\ last.err = "Finished feed not found"
    /\ last.id = 2
    /\ 2 \notin DOMAIN finishedFeeds
    /\ 1 \in DOMAIN feedConsumptions
    /\ feedConsumptions[1].finished_feed_id = 1

----------------------------------------------------------------------------
(* Inputs of the ordered lists *)

\* Bound: the number of rows ever inserted, over all tables together, in the
\* behaviours of SpecOrder.
MaxOrderRows == 7

OrderCreateChickenFlockInputs ==
    [strain : {"s"}, entry_date : {0}, initial_count : {100}, age_upon_entry_days : {0}]
OrderCreateOtherExpensesInputs ==
    [expense_date : RowInstants, expense_type : {"labor"}, description : {"d"},
     amount : {1000}]
OrderCreateEggProductionInputs ==
    [flock_id : Ids("chicken_flocks"), production_date : RowInstants, quality : {"A"},
     quantity : {30}]
\* The instants the date-range lists are called with in SpecOrder.
OrderInstants == {1, 2 * MaxDay}

NextOrder ==
    \/ \E input \in OrderCreateChickenFlockInputs :
          createChickenFlock(input) /\ RowsInserted' <= MaxOrderRows
    \/ \E input \in OrderCreateOtherExpensesInputs :
          createOtherExpenses(input) /\ RowsInserted' <= MaxOrderRows
    \/ \E input \in OrderCreateEggProductionInputs :
          createEggProduction(input) /\ RowsInserted' <= MaxOrderRows
    \/ \E val \in getOtherExpenses : Query("getOtherExpenses", val)
    \/ \E startDate, endDate \in OrderInstants :
          \E val \in getOtherExpensesByDateRange(startDate, endDate) :
              Query("getOtherExpensesByDateRange", val)
    \/ \E val \in getEggProductions : Query("getEggProductions", val)
    \/ \E flockId \in Ids("chicken_flocks") :
          \E val \in getEggProductionsByFlockId(flockId) :
              Query("getEggProductionsByFlockId", val)
    \/ \E startDate, endDate \in OrderInstants :
          \E val \in getEggProductionsByDateRange(startDate, endDate) :
              Query("getEggProductionsByDateRange", val)

SpecOrder == InitReport /\ [][NextOrder]_vars

----------------------------------------------------------------------------
(* Lists ordered by date: claim C21 *)

\* The date field of the records each ordered list returns.
OrderedListDate ==
    [getOtherExpenses |-> "expense_date", getOtherExpensesByDateRange |-> "expense_date",
     getEggProductions |-> "production_date",
     getEggProductionsByFlockId |-> "production_date",
     getEggProductionsByDateRange |-> "production_date"]

\* C21: getOtherExpenses, getOtherExpensesByDateRange, getEggProductions,
\* getEggProductionsByFlockId and getEggProductionsByDateRange return their rows
\* by date descending: of two adjacent rows of the result, the date of the
\* first is greater than or equal to the date of the second.
C21_ListsOrderedByDateDescending ==
    [][last'.op \in DOMAIN OrderedListDate =>
          \A k \in 1..(Len(last'.val) - 1) :
              last'.val[k][OrderedListDate[last'.op]]
                  >= last'.val[k + 1][OrderedListDate[last'.op]]]_vars

\* getEggProductions has returned three productions of three different days,
\* the latest first, although the latest was not stored last.
C21_Witness ==
    /\ last.op = "getEggProductions"
    /\ Len(last.val) = 3
    /\ last.val[1].production_date > last.val[2].production_date
    /\ last.val[2].production_date > last.val[3].production_date
    /\ last.val[1].id < last.val[3].id

----------------------------------------------------------------------------
(* What an export holds: claim C22 *)

\* The filters each entity type reads: the key, the column it is compared with
\* and the comparison.
EntityFilters(entityType) ==
    CASE entityType = "raw_materials" ->
            {[key |-> "name", col |-> "name", rel |-> "eq"],
             [key |-> "min_price", col |-> "price_per_kg", rel |-> "ge"]}
      [] entityType = "finished_feeds" -> {[key |-> "name", col |-> "name", rel |-> "eq"]}
      [] entityType = "flocks" ->
            {[key |-> "strain", col |-> "strain", rel |-> "eq"],
             [key |-> "entry_date_from", col |-> "entry_date", rel |-> "ge"],
             [key |-> "entry_date_to", col |-> "entry_date", rel |-> "le"]}
      [] entityType = "feed_consumption" ->
            {[key |-> "flock_id", col |-> "flock_id", rel |-> "eq"],
             [key |-> "date_from", col |-> "consumption_date", rel |-> "ge"],
             [key |-> "date_to", col |-> "consumption_date", rel |-> "le"]}
      [] entityType = "egg_production" ->
            {[key |-> "flock_id", col |-> "flock_id", rel |-> "eq"],
             [key |-> "quality", col |-> "quality", rel |-> "eq"],
             [key |-> "date_from", col |-> "production_date", rel |-> "ge"],
             [key |-> "date_to", col |-> "production_date", rel |-> "le"]}
      [] entityType = "egg_sales" ->
            {[key |-> "quality", col |-> "quality", rel |-> "eq"],
             [key |-> "date_from", col |-> "sale_date", rel |-> "ge"],
             [key |-> "date_to", col |-> "sale_date", rel |-> "le"]}
      [] entityType = "other_expenses" ->
            {[key |-> "expense_type", col |-> "expense_type", rel |-> "eq"],
             [key |-> "date_from", col |-> "expense_date", rel |-> "ge"],
             [key |-> "date_to", col |-> "expense_date", rel |-> "le"]}

StringFilters == {"name", "strain", "quality", "expense_type"}

\* The request carries a value for the filter key.
Provided(filters, key) ==
    IF key \in StringFilters THEN filters[key] # UndefinedStr ELSE filters[key] # Undefined

\* The request carries a value for the filter key other than '' and 0.
ProvidedNonEmpty(filters, key) ==
    /\ Provided(filters, key)
    /\ IF key \in StringFilters THEN filters[key] # "" ELSE filters[key] # 0

Compares(value, rel, bound) ==
    CASE rel = "eq" -> value = bound
      [] rel = "ge" -> value >= bound
      [] rel = "le" -> value <= bound

\* The ids of the rows of the entity that satisfy every filter that is given.
RowsSatisfying(entityType, filters, Given(_, _)) ==
    {i \in DOMAIN EntityTable(entityType) :
        \A f \in EntityFilters(entityType) :
            Given(filters, f.key)
                => Compares(EntityTable(entityType)[i][f.col], f.rel, filters[f.key])}

HeaderLine(format, entityType) ==
    Join(getTableHeaders(entityType), IF format = "pdf" THEN " | " ELSE ",")

\* The line of a row in the buffer: its fields joined with ' | ', or quoted and
\* joined with ','.
RowLine(format, entityType, row) ==
    LET values == getRowValues(row, entityType)
    IN  IF format = "pdf" THEN Join(values, " | ")
        ELSE Join([f \in DOMAIN values |-> "\"" \o values[f] \o "\""], ",")

\* The buffer holds `lead` lines, the last of them the header line, and then
\* one line for each of the rows S of the entity and no other line.
HoldsHeaderAndRows(buffer, request, lead, S) ==
    /\ Len(buffer) = lead + Cardinality(S)
    /\ buffer[lead] = HeaderLine(request.format, request.entity_type)
    /\ {buffer[k] : k \in (lead + 1)..Len(buffer)}
          = {RowLine(request.format, request.entity_type,
                     [id |-> i] @@ EntityTable(request.entity_type)[i]) : i \in S}

\* The buffers exportData can resolve to for a request of a supported entity.
ExportBuffers(request) ==
    {IF request.format = "pdf" THEN generatePDF(data, request.entity_type)
                               ELSE generateExcel(data, request.entity_type) :
        data \in fetchDataByEntityType(request.entity_type, request.filters).data}

SupportedRequests == {request \in ExportRequests : request.entity_type \in SupportedEntityTypes}

\* C22 as stated: exportData exports exactly the rows of the requested entity
\* that satisfy every provided filter, every row when there is none, as one
\* header line followed by one line per exported row.
C22_ExportHoldsHeaderAndFilteredRows ==
    \A request \in SupportedRequests :
        /\ fetchDataByEntityType(request.entity_type, request.filters).err = "none"
        /\ \A buffer \in ExportBuffers(request) :
              HoldsHeaderAndRows(buffer, request, 1,
                  RowsSatisfying(request.entity_type, request.filters, Provided))

\* The lines a pdf export puts before its header line, the rule it puts after.
HoldsReportFrame(buffer, request) ==
    /\ Len(buffer) >= 5
    /\ buffer[1] = ReportTitle(request.entity_type) \o " Report"
    /\ buffer[3] = ""
    /\ buffer[5] = Dashes(Len(buffer[4]))

\* C22, amended: a filter whose value is '' or 0 counts as not provided; the
\* excel format holds the header line and then one line per exported row; the
\* pdf format holds a title line, a date line and an empty line before the
\* header line, a rule after it, and then one line per exported row.  An
\* export changes no table.
C22_ExportHoldsFilteredRowsPerFormat ==
    /\ [](\A request \in SupportedRequests :
            /\ fetchDataByEntityType(request.entity_type, request.filters).err = "none"
            /\ \A buffer \in ExportBuffers(request) :
                  LET S == RowsSatisfying(request.entity_type, request.filters,
                                          ProvidedNonEmpty)
                  IN  IF request.format = "excel"
                      THEN HoldsHeaderAndRows(buffer, request, 1, S)
                      ELSE /\ HoldsReportFrame(buffer, request)
                           /\ HoldsHeaderAndRows(
                                  [k \in 1..(Len(buffer) - 1) |->
                                      IF k < 5 THEN buffer[k] ELSE buffer[k + 1]],
                                  request, 4, S))
    /\ [][last'.op = "exportData" => UNCHANGED <<tables, seq>>]_vars

\* Two egg sales are stored, one of quality A and one of quality B, and an
\* excel export of the sales of quality A holds the header and one line.
C22_Witness ==
    /\ last.op = "exportData"
    /\ last.err = "none"
    /\ Cardinality(DOMAIN eggSales) = 2
    /\ {eggSales[i].quality : i \in DOMAIN eggSales} = {"A", "B"}
    /\ Len(last.val.buffer) = 2
    /\ last.val.buffer[1] = "ID,Sale Date,Quality,Quantity,Price per Egg,Total Price"
    /\ \E i \in DOMAIN eggSales :
          /\ eggSales[i].quality = "A"
          /\ last.val.buffer[2]
                = RowLine("excel", "egg_sales", [id |-> i] @@ eggSales[i])

----------------------------------------------------------------------------
(* References to stored rows: claim C23 *)

\* The foreign keys: the referencing table, its column, the referenced table.
ForeignKeys ==
    {[child |-> "feed_compositions", col |-> "finished_feed_id", parent |-> "finished_feeds"],
     [child |-> "feed_compositions", col |-> "raw_material_id",
      parent |-> "raw_feed_materials"],
     [child |-> "feed_consumptions", col |-> "flock_id", parent |-> "chicken_flocks"],
     [child |-> "feed_consumptions", col |-> "finished_feed_id", parent |-> "finished_feeds"],
     [child |-> "egg_productions", col |-> "flock_id", parent |-> "chicken_flocks"]}

\* C23: in every reachable state every feed composition references a stored
\* finished feed and a stored raw material, every feed consumption a stored
\* flock and a stored finished feed, and every egg production a stored flock,
\* whatever creates, updates and deletes have run.
C23_ReferentialIntegrity ==
    \A fk \in ForeignKeys :
        \A i \in DOMAIN Table[fk.child] : Table[fk.child][i][fk.col] \in DOMAIN Table[fk.parent]

\* The delete of a flock that an egg production or a feed consumption
\* references was just rejected, and the flock is still stored.
C23_Witness ==
    /\ last.op = "deleteChickenFlock"
    /\ last.err = "foreign key violation"
    /\ last.id \in DOMAIN chickenFlocks
    /\ \/ \E p \in DOMAIN eggProductions : eggProductions[p].flock_id = last.id
       \/ \E c \in DOMAIN feedConsumptions : feedConsumptions[c].flock_id = last.id

----------------------------------------------------------------------------
(* Two composition writes on one feed, statements interleaved: claim C24 *)

\* Every call runs to its end: no call stops between two statements, so each
\* composition write is followed by both statements of updateFinishedFeedCost.
NextRace ==
    \/ \E input \in StepCreateRawFeedMaterialInputs :
          createRawFeedMaterial(input) /\ RowsInserted' <= MaxStepRows
    \/ \E c \in Clients : \E input \in StepCreateFeedCompositionInputs :
          beginCreateFeedComposition(c, input)
    \/ \E c \in Clients : \E input \in StepUpdateFeedCompositionInputs :
          beginUpdateFeedComposition(c, input)
    \/ \E c \in Clients : \E id \in Ids("feed_compositions") :
          beginDeleteFeedComposition(c, id)
    \/ \E c \in Clients : writeComposition(c) /\ RowsInserted' <= MaxStepRows
    \/ \E c \in Clients : readCompositions(c)
    \/ \E c \in Clients : storeFeedCost(c)

SpecRace == InitReport /\ [][NextRace]_vars

\* The cost of every finished feed is the weighted sum, to the cent, over the
\* compositions and prices stored now.
CostsAreCurrent ==
    \A f \in DOMAIN finishedFeeds :
       finishedFeeds[f].cost_per_kg \in
          FloatRounded(WeightedCost(f, feedCompositions, rawFeedMaterials), CentInWeightedCost)

\* No call is in progress.
AllCallsCompleted == \A c \in Clients : calls[c].pc = "idle"

\* C24: when composition writes on the same finished feed run concurrently with
\* their statements interleaved in any order, then once they have all completed
\* the feed's cost_per_kg is the weighted sum over the compositions stored at
\* that point.
C24_ConcurrentWritesLeaveCurrentCost == AllCallsCompleted => CostsAreCurrent

\* Both calls have completed and a feed's cost is not the weighted sum over
\* what is stored: the call that read the join first wrote the feed last.
C24_StaleCostStored == AllCallsCompleted /\ ~CostsAreCurrent

----------------------------------------------------------------------------
(* updateEggSales, statement by statement.  When quantity or price_per_egg is *)
(* given the handler first SELECTs the row (getEggSalesById), computes        *)
(* total_price from what it read, then sends the UPDATE; the two statements   *)
(* are not in a transaction and other calls can run between them.            *)

\* updateEggSales up to its first await: with neither factor given the only
\* statement is the UPDATE.
beginUpdateEggSales(c, input) ==
    /\ CanBegin(c)
    /\ IF input.quantity = Undefined /\ input.price_per_egg = Undefined
       THEN updateEggSales(input)
       ELSE /\ calls' = [calls EXCEPT ![c] = [pc |-> "current", op |-> "updateEggSales",
                                              id |-> input.id, val |-> input,
                                              feed |-> 0, totalCost |-> 0]]
            /\ UNCHANGED <<tables, seq, last>>

\* const current = await getEggSalesById(input.id): the row as stored now is
\* kept by the call, which throws when there is none.
readCurrentEggSale(c) ==
    /\ calls[c].pc = "current"
    /\ IF calls[c].id \notin DOMAIN eggSales
       THEN /\ calls' = [calls EXCEPT ![c] = Idle]
            /\ last' = [op |-> "updateEggSales", err |-> "Egg sale record not found",
                        id |-> calls[c].id, val |-> Void]
       ELSE /\ calls' = [calls EXCEPT ![c] =
                            [@ EXCEPT !.pc = "update",
                                      !.val = [input |-> calls[c].val,
                                               current |-> eggSales[calls[c].id]]]]
            /\ UNCHANGED last
    /\ UNCHANGED <<tables, seq>>

\* The UPDATE: the columns the input gives and the total_price computed from
\* the row read earlier are set on the row as stored now.
writeEggSale(c) ==
    /\ calls[c].pc = "update"
    /\ LET input == calls[c].val.input
           id == calls[c].id
       IN  IF id \notin DOMAIN eggSales
           THEN /\ last' = [op |-> "updateEggSales", err |-> "Egg sale record not found",
                            id |-> id, val |-> Void]
                /\ UNCHANGED eggSales
           ELSE \E total_price \in updatedTotalPrice(input, calls[c].val.current) :
                  LET stored == eggSales[id]
                      row == [sale_date |-> IF input.sale_date # Undefined
                                            THEN formatDateForDB(input.sale_date)
                                            ELSE stored.sale_date,
                              quality |-> IF input.quality # UndefinedStr
                                          THEN input.quality ELSE stored.quality,
                              quantity |-> IF input.quantity # Undefined
                                           THEN input.quantity ELSE stored.quantity,
                              price_per_egg |-> IF input.price_per_egg # Undefined
                                                THEN RoundHalfUp(input.price_per_egg,
                                                                 InputPricePerColumnPrice)
                                                ELSE stored.price_per_egg,
                              total_price |-> total_price]
                  IN  /\ eggSales' = [eggSales EXCEPT ![id] = row]
                      /\ last' = [op |-> "updateEggSales", err |-> "none", id |-> id,
                                  val |-> row]
    /\ calls' = [calls EXCEPT ![c] = Idle]
    /\ UNCHANGED <<rawFeedMaterials, finishedFeeds, feedCompositions, chickenFlocks,
                   feedConsumptions, eggProductions, otherExpenses, seq>>

\* Bound: the number of egg sales ever inserted in the behaviours of SpecSaleRace.
MaxSaleRaceRows == 1

\* A sale of one egg at 0.125 is created; the updates give the quantity 1000
\* alone or the price_per_egg 0.25 alone (in 1/100000; the price_per_egg column
\* holds both prices exactly).
RaceCreateEggSalesInputs ==
    [sale_date : {1}, quality : {"A"}, quantity : {1}, price_per_egg : {12500}]
RaceUpdateEggSalesInputs ==
    {input \in [id : Ids("egg_sales"), sale_date : {Undefined}, quality : {UndefinedStr},
                quantity : {1000, Undefined}, price_per_egg : {25000, Undefined}] :
        (input.quantity = Undefined) # (input.price_per_egg = Undefined)}

NextSaleRace ==
    \/ \E input \in RaceCreateEggSalesInputs :
          createEggSales(input) /\ RowsInserted' <= MaxSaleRaceRows
    \/ \E c \in Clients : \E input \in RaceUpdateEggSalesInputs : beginUpdateEggSales(c, input)
    \/ \E c \in Clients : readCurrentEggSale(c)
    \/ \E c \in Clients : writeEggSale(c)
    \/ \E id \in Ids("egg_sales") : deleteEggSales(id)

SpecSaleRace == Init /\ [][NextSaleRace]_vars

----------------------------------------------------------------------------
(* Two updates of one egg sale, statements interleaved: claim C25 *)

\* The total_price of every stored sale is the product, to the cent, of the
\* quantity and the price_per_egg stored with it.
TotalsAreCurrent ==
    \A id \in DOMAIN eggSales :
       eggSales[id].total_price \in
          totalPrice(eggSales[id].quantity,
                     eggSales[id].price_per_egg * InputPricePerColumnPrice)

\* C25: when two updateEggSales calls on the same sale run concurrently, one
\* giving only quantity and the other only price_per_egg, then once both have
\* completed the stored total_price is the stored quantity times the stored
\* price_per_egg, for every interleaving of their read and write steps.
C25_ConcurrentUpdatesLeaveCurrentTotal == AllCallsCompleted => TotalsAreCurrent

\* Both updates have completed and a sale's total_price is not the product of
\* its quantity and price_per_egg: each call multiplied its own factor by the
\* other factor as it was before the other call's write.
C25_StaleTotalStored == AllCallsCompleted /\ ~TotalsAreCurrent

----------------------------------------------------------------------------
(* The cost of a stored consumption is a snapshot: claim C26 *)

\* Bound: the number of rows ever inserted, over all tables together, in the
\* behaviours of SpecSnap, the four rows it starts with included.
MaxSnapRows == 5

\* The material at 2.50 can be repriced to 3.20, and the stored composition set
\* to 40% or 60%: calculateFeedCost and the composition writes change the cost of
\* feed 1 between 1.00, 1.28, 1.50 and 1.92.
SnapUpdateRawFeedMaterialInputs ==
    [id : {1}, name : {UndefinedStr}, price_per_kg : {Undefined, 320}]
SnapCreateFeedCompositionInputs ==
    [finished_feed_id : Ids("finished_feeds"), raw_material_id : {1}, percentage : {6000}]
SnapUpdateFeedCompositionInputs == [id : {1}, percentage : {4000, 6000}]

NextSnap ==
    \/ \E input \in SnapUpdateRawFeedMaterialInputs : updateRawFeedMaterial(input)
    \/ \E input \in CreateFinishedFeedInputs :
          createFinishedFeed(input) /\ RowsInserted' <= MaxSnapRows
    \/ \E id \in Ids("finished_feeds") : calculateFeedCost(id)
    \/ \E input \in SnapCreateFeedCompositionInputs :
          createFeedComposition(input) /\ RowsInserted' <= MaxSnapRows
    \/ \E input \in SnapUpdateFeedCompositionInputs : updateFeedComposition(input)
    \/ \E id \in Ids("feed_compositions") : deleteFeedComposition(id)
    \/ \E input \in CreateFeedConsumptionInputs :
          createFeedConsumption(input) /\ RowsInserted' <= MaxSnapRows
    \/ \E input \in UpdateFeedConsumptionInputs : updateFeedConsumption(input)

SpecSnap == InitReport /\ [][NextSnap]_vars

\* C26: the cost of a stored feed consumption is a snapshot.  Composition
\* writes, calculateFeedCost and raw-material updates leave it unchanged, and so
\* does an updateFeedConsumption that gives neither quantity_kg nor
\* finished_feed_id; only an updateFeedConsumption of that consumption that
\* gives quantity_kg or finished_feed_id rewrites it.
C26_ConsumptionCostIsSnapshot ==
    [][\A id \in DOMAIN feedConsumptions \cap DOMAIN feedConsumptions' :
          /\ feedConsumptions'[id].cost # feedConsumptions[id].cost =>
                /\ last'.op = "updateFeedConsumption"
                /\ last'.err = "none"
                /\ last'.id = id
          /\ (last'.op = "updateFeedConsumption" /\ last'.id = id) =>
                \A input \in UpdateFeedConsumptionInputs :
                    ( /\ input.id = id
                      /\ input.quantity_kg = Undefined
                      /\ input.finished_feed_id = Undefined
                      /\ updateFeedConsumption(input) ) =>
                        feedConsumptions'[id].cost = feedConsumptions[id].cost
      ]_vars

\* After the cost of its feed had moved away from 1.00, a consumption of 2 kg
\* was updated by an updateFeedConsumption that gave neither quantity_kg nor
\* finished_feed_id: it still costs 2.00, the price at 1.00 per kg.
C26_Witness ==
    /\ last.op = "updateFeedConsumption"
    /\ last.err = "none"
    /\ last.id \in DOMAIN feedConsumptions
    /\ feedConsumptions[last.id].quantity_kg = 200
    /\ feedConsumptions[last.id].cost = 200
    /\ finishedFeeds[feedConsumptions[last.id].finished_feed_id].cost_per_kg \in {128, 150, 192}

----------------------------------------------------------------------------
(* What a composition write leaves alone: claim C27 *)

\* The finished feed that the composition written in this step references.
WrittenCompositionFeed ==
    IF last'.op = "deleteFeedComposition"
    THEN feedCompositions[last'.id].finished_feed_id
    ELSE feedCompositions'[last'.id].finished_feed_id

\* C27: a composition create, update or delete that references finished feed F
\* changes, besides the composition itself, the cost_per_kg of F only: every
\* other finished feed, every raw material, every other composition and the
\* name of F are left unchanged.
C27_CompositionWriteChangesOnlyItsFeedCost ==
    [][(last'.op \in CompositionWrites /\ last'.err = "none") =>
          /\ DOMAIN finishedFeeds' = DOMAIN finishedFeeds
          /\ \A f \in DOMAIN finishedFeeds :
                IF f = WrittenCompositionFeed
                THEN finishedFeeds'[f].name = finishedFeeds[f].name
                ELSE finishedFeeds'[f] = finishedFeeds[f]
          /\ rawFeedMaterials' = rawFeedMaterials
          /\ \A k \in DOMAIN feedCompositions \cap DOMAIN feedCompositions' :
                k # last'.id => feedCompositions'[k] = feedCompositions[k]
          /\ DOMAIN feedCompositions' \ {last'.id} = DOMAIN feedCompositions \ {last'.id}
          /\ UNCHANGED <<chickenFlocks, feedConsumptions, eggProductions, eggSales,
                         otherExpenses>>
      ]_vars

\* The composition of feed 1 was just set to 60% of a material whose price had
\* been raised to 3.20: feed 1 costs 1.92, and feed 2, made of the same material,
\* keeps the cost it was given at the old price.
C27_Witness ==
    /\ last.op = "updateFeedComposition"
    /\ last.err = "none"
    /\ last.val.finished_feed_id = 1
    /\ finishedFeeds[1].cost_per_kg = 192
    /\ 2 \in DOMAIN finishedFeeds
    /\ finishedFeeds[2].cost_per_kg \in {150, 151}
    /\ \E k \in DOMAIN feedCompositions :
          /\ feedCompositions[k].finished_feed_id = 2
          /\ feedCompositions[k].raw_material_id = 1
          /\ rawFeedMaterials[1].price_per_kg = 320

----------------------------------------------------------------------------
(* The two feed-cost computations: claim C28 *)

\* Bound: the number of rows ever inserted, over all tables together, in the
\* behaviours of SpecAgree, the four rows it starts with included.
MaxAgreeRows == 6

\* Percentages in hundredths of a percent: 1.40% and 60%.  1.40% of the material
\* at 2.50 is 0.035 exactly; in doubles (1.4 / 100) * 2.5 is
\* 0.034999999999999996.
AgreeCreateFeedCompositionInputs ==
    [finished_feed_id : Ids("finished_feeds"), raw_material_id : Ids("raw_feed_materials"),
     percentage : {140}]
AgreeUpdateFeedCompositionInputs == [id : Ids("feed_compositions"), percentage : {140, 6000}]

NextAgree ==
    \/ \E input \in CreateFinishedFeedInputs :
          createFinishedFeed(input) /\ RowsInserted' <= MaxAgreeRows
    \/ \E input \in AgreeCreateFeedCompositionInputs :
          createFeedComposition(input) /\ RowsInserted' <= MaxAgreeRows
    \/ \E input \in AgreeUpdateFeedCompositionInputs : updateFeedComposition(input)
    \/ \E id \in Ids("feed_compositions") : deleteFeedComposition(id)
    \/ \E id \in Ids("finished_feeds") : calculateFeedCost(id)

SpecAgree == InitReport /\ [][NextAgree]_vars

\* C28: the two feed-cost computations agree: calculateFeedCost, called for
\* feed F right after a composition create or update that references F, leaves
\* the cost_per_kg that the composition write persisted unchanged.
C28_CostComputationsAgree ==
    [][( /\ last.op \in {"createFeedComposition", "updateFeedComposition"}
         /\ last.err = "none"
         /\ last'.op = "calculateFeedCost"
         /\ last'.id = last.val.finished_feed_id ) =>
            finishedFeeds'[last'.id].cost_per_kg = finishedFeeds[last'.id].cost_per_kg
      ]_vars

\* A composition write has just stored, for its feed, a cost that is not the
\* exact weighted sum rounded to the cent, which is what calculateFeedCost
\* stores in this state.
C28_WriteStoredOtherCost ==
    /\ last.op \in {"createFeedComposition", "updateFeedComposition"}
    /\ last.err = "none"
    /\ finishedFeeds[last.val.finished_feed_id].cost_per_kg #
          RoundHalfUp(WeightedCost(last.val.finished_feed_id, feedCompositions,
                                   rawFeedMaterials), CentInWeightedCost)

----------------------------------------------------------------------------
(* exportProfitReport.  calculateProfitReport selects the rows of the period   *)
(* and adds their amounts up in doubles, where generateProfitReport parses the *)
(* exact sum the database returns.  A double is written as the cents it is     *)
(* nearest to and its drift: how it lies to the double that parseFloat gives   *)
(* for the text of that many cents (-1 under, 0 that double, 1 over).          *)

Exact(cents) == [cents |-> cents, drift |-> 0]

\* rows.reduce((sum, row) => sum + parseFloat(row[col]), 0) over the rows S of
\* `table`: the additions are exact when there is at most one row, when all the
\* rows hold the same amount twice over (x + x) or when every amount is a
\* multiple of a quarter (25 cents, a binary fraction); otherwise each addition rounds and the result can be
\* a neighbour of the double of the exact sum (0.1 + 0.2 is 0.30000000000000004).
reduceSum(table, col, S) ==
    LET total == SumOver([i \in S |-> table[i][col]], S)
    IN  IF \/ Cardinality(S) <= 1
           \/ Cardinality(S) = 2 /\ Cardinality({table[i][col] : i \in S}) = 1
           \/ \A i \in S : table[i][col] % 25 = 0
        THEN {Exact(total)}
        ELSE {[cents |-> total, drift |-> d] : d \in {-1, 0, 1}}

\* totalRevenue - totalFeedCost - totalOtherExpenses: the double that
\* generateProfitReport computes when the three totals are the doubles it has.
profitOf(totalRevenue, totalFeedCost, totalOtherExpenses) ==
    LET cents == totalRevenue.cents - totalFeedCost.cents - totalOtherExpenses.cents
    IN  IF /\ totalRevenue.drift = 0 /\ totalFeedCost.drift = 0
           /\ totalOtherExpenses.drift = 0
        THEN {Exact(cents)}
        ELSE {[cents |-> cents, drift |-> d] : d \in {-1, 0, 1}}

\* The profit data calculateProfitReport can compute (the detail rows, which
\* neither generator prints, left out).
calculateProfitReport(startDate, endDate) ==
    LET sales == InDateRange(eggSales, "sale_date", startDate, endDate)
        consumptions == InDateRange(feedConsumptions, "consumption_date", startDate, endDate)
        expenses == InDateRange(otherExpenses, "expense_date", startDate, endDate)
    IN  UNION {UNION {UNION {{[total_revenue |-> r,
                               total_feed_cost |-> f,
                               total_other_expenses |-> x,
                               total_profit |-> p,
                               period_start |-> startDate,
                               period_end |-> endDate] : p \in profitOf(r, f, x)} :
                                x \in reduceSum(otherExpenses, "amount", expenses)} :
                         f \in reduceSum(feedConsumptions, "cost", consumptions)} :
                  r \in reduceSum(eggSales, "total_price", sales)}

\* The four totals, in the order both generators print them.
ProfitTotals == <<"total_revenue", "total_feed_cost", "total_other_expenses", "total_profit">>

\* n.toFixed(2), which depends on the cents alone.
toFixedSigned(n) == IF n.cents < 0 THEN "-" \o toFixed(-n.cents, 2) ELSE toFixed(n.cents, 2)

\* The summary lines of the text report: each total with two decimals.
generateProfitReportPDF(data) ==
    [format |-> "pdf", period_start |-> data.period_start, period_end |-> data.period_end,
     totals |-> [k \in DOMAIN ProfitTotals |-> toFixedSigned(data[ProfitTotals[k]])]]

\* The summary lines of the delimited report: each total as String(number),
\* which is a different text for a different double.
generateProfitReportExcel(data) ==
    [format |-> "excel", period_start |-> data.period_start, period_end |-> data.period_end,
     totals |-> [k \in DOMAIN ProfitTotals |-> data[ProfitTotals[k]]]]

exportProfitReport(request) ==
    \E profitData \in calculateProfitReport(request.startDate, request.endDate) :
       Query("exportProfitReport",
             IF request.format = "pdf"
             THEN generateProfitReportPDF(profitData)
             ELSE generateProfitReportExcel(profitData))

\* Bound: the number of rows ever inserted, over all tables together, in the
\* behaviours of SpecProfit, the four rows it starts with included.
MaxProfitRows == 6

\* amount in tenths of a cent: 0.10, 0.20
ProfitCreateOtherExpensesInputs ==
    [expense_date : RowInstants, expense_type : {"labor"}, description : {"d"},
     amount : {100, 200}]
ExportProfitReportRequests ==
    [format : {"pdf", "excel"}, startDate : PeriodStarts, endDate : PeriodEnds]

NextProfit ==
    \/ \E input \in ReportCreateFeedConsumptionInputs :
          createFeedConsumption(input) /\ RowsInserted' <= MaxProfitRows
    \/ \E input \in QueryCreateEggSalesInputs :
          createEggSales(input) /\ RowsInserted' <= MaxProfitRows
    \/ \E input \in ProfitCreateOtherExpensesInputs :
          createOtherExpenses(input) /\ RowsInserted' <= MaxProfitRows
    \/ \E input \in ProfitReportInputs :
          Query("generateProfitReport", generateProfitReport(input))
    \/ \E request \in ExportProfitReportRequests : exportProfitReport(request)

SpecProfit == InitReport /\ [][NextProfit]_vars

----------------------------------------------------------------------------
(* The two profit calculations: claim C29 *)

\* The totals of generateProfitReport for the period of an export.
ReportedFor(startDate, endDate) ==
    generateProfitReport([period_start |-> startDate, period_end |-> endDate])

\* C29: the two profit calculations agree: for every stored data set and every
\* start/end pair, the total revenue, total feed cost, total other expenses and
\* net profit that calculateProfitReport computes for exportProfitReport are
\* the numbers generateProfitReport returns for the same period.
C29_ProfitCalculationsAgree ==
    \A startDate \in PeriodStarts, endDate \in PeriodEnds :
       \A data \in calculateProfitReport(startDate, endDate) :
          \A k \in DOMAIN ProfitTotals :
             data[ProfitTotals[k]] = Exact(ReportedFor(startDate, endDate)[ProfitTotals[k]])

\* The two calculations agree to the cent, and with it the text report, which
\* prints two decimals.
C29_ProfitCalculationsAgreeToTheCent ==
    /\ \A startDate \in PeriodStarts, endDate \in PeriodEnds :
          \A data \in calculateProfitReport(startDate, endDate) :
             \A k \in DOMAIN ProfitTotals :
                data[ProfitTotals[k]].cents = ReportedFor(startDate, endDate)[ProfitTotals[k]]
    /\ (last.op = "exportProfitReport" /\ last.val.format = "pdf") =>
          \A k \in DOMAIN ProfitTotals :
             last.val.totals[k] =
                toFixedSigned(Exact(ReportedFor(last.val.period_start,
                                                last.val.period_end)[ProfitTotals[k]]))

\* The delimited profit report was exported for a period with expenses of 0.10
\* and 0.20, and its total is not the double 0.3 that generateProfitReport
\* returns.
C29_ExportedTotalDiffers ==
    /\ last.op = "exportProfitReport"
    /\ last.val.format = "excel"
    /\ last.val.totals[3].cents = 30
    /\ last.val.totals[3] #
          Exact(ReportedFor(last.val.period_start, last.val.period_end).total_other_expenses)

----------------------------------------------------------------------------
(* The entity types of the export request schema: claim C30 *)

\* exportRequestSchema.entity_type
SchemaEntityTypes ==
    {"raw_materials", "finished_feeds", "flocks", "feed_consumption", "egg_production",
     "egg_sales", "other_expenses", "profit_report"}

\* C30: every entity_type that the export request schema accepts is handled by
\* exportData without an 'Unsupported entity type' error; that error is raised
\* only for values outside the schema's list.
C30_SchemaEntityTypesHandled ==
    [][last'.op = "exportData" =>
          \A request \in ExportRequests :
              exportData(request) =>
                  (last'.err = "Unsupported entity type"
                      <=> request.entity_type \notin SchemaEntityTypes)]_vars

\* The error is raised exactly for the values that fetchDataByEntityType has no
\* case for, 'profit_report' among them.
C30_SchemaValueWithoutCase ==
    /\ last.op = "exportData"
    /\ last.err = "Unsupported entity type"
    /\ fetchDataByEntityType("profit_report", NoFilters).err = "Unsupported entity type"
    /\ \A t \in ExportEntityTypes :
          fetchDataByEntityType(t, NoFilters).err = "Unsupported entity type"
             <=> t \notin SupportedEntityTypes

====
